---- MODULE Spec2Model ----
(***************************************************************************)
(* A model of mods: the session coordinator (Mods, a Bubble Tea model),    *)
(* the five provider stream adapters behind the stream.Stream cursor, the  *)
(* conversation index (convoDB, SQLite) and the conversation blob cache.   *)
(*                                                                         *)
(* Text is modelled as a sequence of one-character strings, so that        *)
(* len(s), s[:n], prefixes and GLOB matching are computed as the code      *)
(* computes them.                                                          *)
(***************************************************************************)
EXTENDS Integers, Sequences, FiniteSets, TLC

(***************************************************************************)
(* Bounds of the model.                                                    *)
(***************************************************************************)
IdLen == 8            \* length of a conversation id (40 hex digits in sha.go)
MaxRows == 2          \* rows the index may hold
MaxClock == 3         \* wall-clock ticks the index model lets pass
MaxRetriesCfg == 3    \* largest --max-retries setting drawn
MaxChunks == 2        \* provider events that carry data in one response
MaxToolCalls == 2     \* tool calls the model makes in one assistant turn
MaxRequests == 2      \* provider requests one stream / session may open
MaxPromptLen == 12    \* longest prompt (stdin, indented) drawn

(***************************************************************************)
(* Program constants.                                                      *)
(***************************************************************************)
sha1short == 7
sha1minLen == 4
MaxCloses == 3        \* calls of Close on one stream
TicksPerSec == 3      \* clock ticks per second: updated_at keeps a fraction

(***************************************************************************)
(* Text helpers.                                                           *)
(***************************************************************************)
Rep(c, n) == [i \in 1..n |-> c]

IsPrefix(p, s) == Len(p) <= Len(s) /\ SubSeq(s, 1, Len(p)) = p

\* SQLite's GLOB: '*' matches any run of characters, '?' exactly one.
RECURSIVE Glob(_, _)
Glob(pat, s) ==
    IF pat = << >> THEN s = << >>
    ELSE IF Head(pat) = "*"
         THEN Glob(Tail(pat), s) \/ (s # << >> /\ Glob(pat, Tail(s)))
    ELSE IF s = << >> THEN FALSE
    ELSE IF Head(pat) = "?" THEN Glob(Tail(pat), Tail(s))
    ELSE Head(pat) = Head(s) /\ Glob(Tail(pat), Tail(s))

HexDigits == {"0", "1", "2", "3", "4", "5", "6", "7", "8", "9",
              "a", "b", "c", "d", "e", "f"}

\* sha1reg: the string is one whole hex word of the id length.
sha1reg(s) == Len(s) = IdLen /\ \A i \in 1..Len(s) : s[i] \in HexDigits

(***************************************************************************)
(* Values drawn for ids, titles and lookups.  The ids follow the test      *)
(* ids of TestConvoDB: df31ae23ab8b... and df31ae23ab9b... share a prefix. *)
(***************************************************************************)
IdStem == <<"d", "f", "3", "1", "a", "e">>
MkId(c) == IdStem \o <<c>> \o Rep("0", IdLen - 7)
ID1 == MkId("8")
ID2 == MkId("9")
ID3 == <<"6", "c", "3", "3", "f", "7", "1">> \o Rep("0", IdLen - 7)
IDs == {ID1, ID2, ID3}

TitleMsg == <<"m", "s", "g">>
TitleMsg1 == <<"m", "s", "g", " ", "1">>
TitleLikeId == <<"d", "f", "3", "1">>
TitleNumber == <<"0", "7">>
Titles == {TitleMsg, TitleMsg1, TitleLikeId}

APINames == {"openai", "groq", "anthropic", "google", "cohere", "ollama"}

FindInputs ==
    Titles
    \cup {SubSeq(ID1, 1, 3), SubSeq(ID1, 1, 6), SubSeq(ID1, 1, 7), ID1, ID2,
          SubSeq(ID3, 1, 4)}
    \cup {<<"?", "?", "?", "?">>, <<"d", "f", "*", "9">>, << >>}

VARIABLES
    db,        \* the conversations table: a set of rows
    blobs,     \* the conversation cache: id -> thread, or NoBlob
    clock,     \* wall clock, in ticks
    dbOp,      \* the last index operation and its result
    saved,     \* what the callers of the index have saved, and when
    strm,      \* the stream of the provider adapter
    prov,      \* the provider's side of the open response
    sent,      \* the provider requests opened so far, in order
    hpc,       \* stream contract: what the caller does next
    hist,      \* stream contract: the last call and what it returned
    config,    \* the Config of the run
    mods,      \* the Mods model: state, retries, Input, Output, Error, messages
    pend,      \* the command in flight, or the message it returned
    phase,     \* running, finished (the program returned to RunE), exited, crashed
    log,       \* history of the session, for the statements below
    temp,      \* the expiring cache: the files of its directory
    ctxs,      \* the contexts of the run and the cancel functions Mods keeps
    mcps,      \* the MCP servers, the tool enumeration and the tool call
    unit,      \* one function of the program called alone: arguments and result
    worker     \* ollama: the goroutine that runs Chat and sends the responses

storeVars == <<db, blobs, clock, dbOp, saved>>
streamVars == <<strm, prov, sent, hpc, hist>>
sessionVars == <<config, mods, pend, phase, log>>
auxVars == <<temp, ctxs, mcps, unit, worker>>
vars == <<storeVars, streamVars, sessionVars, auxVars>>

\* newMods: no cancel function yet, no request; nothing of an earlier run
\* in the expiring cache; no MCP work.
NoCtxs == [cancelRequest |-> << >>, cancelled |-> {}, request |-> "none"]
NoMcp == [op |-> "none"]
NoUnit == [fn |-> "none"]
NoWorker == [pc |-> "none"]

AuxIdle ==
    /\ temp = {}
    /\ ctxs = NoCtxs
    /\ mcps = NoMcp
    /\ unit = NoUnit
    /\ worker = NoWorker

NoBlob == [missing |-> TRUE]
NoOp == [op |-> "none"]

(***************************************************************************)
(* The conversation index (db.go).                                         *)
(***************************************************************************)
\* updated_at as stored text: the INSERT default strftime('%f') keeps the
\* fraction of the second, CURRENT_TIMESTAMP (the UPDATE) has whole seconds.
\* frac = -1 stands for a text without the fraction, which sorts first.
InsertStamp(t) == [sec |-> t \div TicksPerSec, frac |-> t % TicksPerSec]
UpdateStamp(t) == [sec |-> t \div TicksPerSec, frac |-> -1]

StampLess(a, b) == a.sec < b.sec \/ (a.sec = b.sec /\ a.frac < b.frac)

RowOf(d, id) == CHOOSE r \in d : r.id = id

\* The columns are declared "string", a type name that gives a column
\* NUMERIC affinity: a text that is an integer literal is stored as the
\* integer and read back in its canonical form ("007" comes back as "7").
\* Ids are SHA-1 words and API and model names are no numbers; titles are
\* free text.  (Literals with a sign, a fraction or an exponent convert
\* too; the titles drawn have none.)
DecDigits == {"0", "1", "2", "3", "4", "5", "6", "7", "8", "9"}

RECURSIVE StripZeros(_)
StripZeros(s) == IF Len(s) > 1 /\ Head(s) = "0" THEN StripZeros(Tail(s)) ELSE s

NumericAffinity(s) ==
    IF s # << >> /\ \A i \in 1..Len(s) : s[i] \in DecDigits THEN StripZeros(s) ELSE s

\* convoDB.Save: UPDATE, and INSERT when no row was updated.  The CHECK
\* constraints of the schema reject an empty id and an empty title.
\* A table whose CHECKs guard the INSERT only.
SaveErrOnInsert(d, id, title) ==
    IF \E r \in d : r.id = id THEN FALSE
    ELSE id = << >> \/ title = << >>

\* convoDB.Save fails when a CHECK fails: (title <> '') on the UPDATE of an
\* existing row; on the INSERT, which an empty id always reaches because no
\* row has it, (id <> '') as well.
SaveErr(d, id, title) ==
    IF \E r \in d : r.id = id THEN title = << >>
    ELSE id = << >> \/ title = << >>

SaveRows(d, id, title, api, model, t) ==
    IF SaveErr(d, id, title) THEN d
    ELSE IF \E r \in d : r.id = id
         THEN (d \ {RowOf(d, id)})
              \cup {[id |-> id, title |-> NumericAffinity(title), api |-> api,
                     model |-> model, updated_at |-> UpdateStamp(t)]}
    ELSE d \cup {[id |-> id, title |-> NumericAffinity(title), api |-> api,
                  model |-> model, updated_at |-> InsertStamp(t)]}

\* convoDB.Delete: unconditional.
DeleteRows(d, id) == {r \in d : r.id # id}

\* convoDB.List: every row, the one updated last first; rows with the same
\* updated_at come in either order.
List(d) ==
    {l \in [1..Cardinality(d) -> d] :
        /\ \A i, j \in 1..Cardinality(d) : i # j => l[i] # l[j]
        /\ \A i, j \in 1..Cardinality(d) :
               i < j => ~StampLess(l[i].updated_at, l[j].updated_at)}

\* What the callers know: for every id the title/api/model of its last
\* successful Save (NoEntry once deleted) and the time of that Save; the id
\* saved last; whether every successful Save came later than the one before.
NoEntry == [none |-> TRUE]
NoSaves == [map |-> [i \in IDs |-> NoEntry], at |-> [i \in IDs |-> -1],
            last |-> << >>, spaced |-> TRUE, threads |-> [i \in IDs |-> NoEntry],
            written |-> {}, odd |-> FALSE]

Saved(g, d, id, title, api, model, t) ==
    IF SaveErr(d, id, title) THEN g
    ELSE [map |-> [g.map EXCEPT ![id] = [title |-> title, api |-> api, model |-> model]],
          at |-> [g.at EXCEPT ![id] = t],
          last |-> id,
          spaced |-> g.spaced /\ \A i \in IDs : g.at[i] < t,
          threads |-> g.threads, written |-> g.written, odd |-> g.odd]

Deleted(g, id) ==
    IF id \in IDs
    THEN [g EXCEPT !.map[id] = NoEntry, !.at[id] = -1,
                   !.last = IF @ = id THEN << >> ELSE @]
    ELSE g

findByExactTitle(d, in) == {r \in d : r.title = NumericAffinity(in)}

findByIDOrTitle(d, in) ==
    {r \in d : Glob(in \o <<"*">>, r.id) \/ r.title = NumericAffinity(in)}

\* convoDB.Find
Find(d, in) ==
    LET conversations == IF Len(in) < sha1minLen
                         THEN findByExactTitle(d, in)
                         ELSE findByIDOrTitle(d, in)
    IN  IF Cardinality(conversations) > 1 THEN [err |-> "errManyMatches"]
        ELSE IF Cardinality(conversations) = 1
             THEN [err |-> "nil", row |-> CHOOSE r \in conversations : TRUE]
        ELSE [err |-> "errNoMatches"]

StoreInit ==
    /\ db = {}
    /\ blobs = [i \in IDs |-> NoBlob]
    /\ clock = 0
    /\ dbOp = NoOp
    /\ saved = NoSaves

DbSave(id, title, api, model) ==
    /\ Cardinality(db) < MaxRows \/ \E r \in db : r.id = id
    /\ db' = SaveRows(db, id, title, api, model, clock)
    /\ dbOp' = [op |-> "Save", id |-> id, title |-> title,
                err |-> SaveErr(db, id, title)]
    /\ saved' = Saved(saved, db, id, title, api, model, clock)
    /\ UNCHANGED <<blobs, clock, streamVars, sessionVars, auxVars>>

DbDelete(id) ==
    /\ db' = DeleteRows(db, id)
    /\ dbOp' = [op |-> "Delete", id |-> id]
    /\ saved' = Deleted(saved, id)
    /\ UNCHANGED <<blobs, clock, streamVars, sessionVars, auxVars>>

DbFind(in) ==
    /\ dbOp' = [op |-> "Find", in |-> in, res |-> Find(db, in)]
    /\ UNCHANGED <<db, blobs, clock, saved, streamVars, sessionVars, auxVars>>

Tick ==
    /\ clock < MaxClock
    /\ clock' = clock + 1
    /\ UNCHANGED <<db, blobs, dbOp, saved, streamVars, sessionVars, auxVars>>

\* The Saves drawn: every id with every title; a title comes with its API.
ApiOfTitle(title) == IF title = TitleMsg1 THEN "groq" ELSE "openai"

SaveCall == \E id \in IDs \cup {<< >>}, title \in Titles \cup {<< >>} :
                DbSave(id, title, ApiOfTitle(title), "gpt-4o")
DeleteCall == \E id \in IDs : DbDelete(id)
FindCall == \E in \in FindInputs : DbFind(in)

DbNext == SaveCall \/ DeleteCall \/ FindCall \/ Tick

\* convoDB.Completions: the UNION of the two SELECTs, a set of lines.
Tab == <<"\t">>

Completions(d, in) ==
    {(IF Len(in) < sha1short THEN SubSeq(r.id, 1, sha1short) ELSE r.id)
         \o Tab \o r.title : r \in {q \in d : Glob(in \o <<"*">>, q.id)}}
    \cup {r.title \o Tab \o SubSeq(r.id, 1, sha1short) :
              r \in {q \in d : Glob(in \o <<"*">>, q.title)}}

DbCompletions(in) ==
    /\ dbOp' = [op |-> "Completions", in |-> in, res |-> Completions(db, in)]
    /\ UNCHANGED <<db, blobs, clock, saved, streamVars, sessionVars, auxVars>>

CompletionsCall == \E in \in FindInputs : DbCompletions(in)

CompleteNext == SaveCall \/ CompletionsCall

\* The index as its callers save, delete and list: no lookups.
DbList ==
    /\ \E l \in List(db) : dbOp' = [op |-> "List", res |-> l]
    /\ UNCHANGED <<db, blobs, clock, saved, streamVars, sessionVars, auxVars>>

\* Saves under the titles of the tests, a title that is a number, no title.
SaveTitled == \E id \in IDs \cup {<< >>},
                 title \in {TitleMsg, TitleMsg1, TitleNumber, << >>} :
                  DbSave(id, title, ApiOfTitle(title), "gpt-4o")

IndexNext == SaveTitled \/ DeleteCall \/ DbList \/ Tick

(***************************************************************************)
(* Messages, errors and provider events (proto package, stream package).   *)
(***************************************************************************)
RoleSystem == "system"
RoleUser == "user"
RoleAssistant == "assistant"
RoleTool == "tool"

\* The tool the model calls, by the ordinal of the call in its turn.
ToolNameAt(i) == IF i % 2 = 1 THEN "s_a" ELSE "s_b"

Msg(role, content, calls) == [role |-> role, content |-> content, calls |-> calls]

NoErr == [t |-> "nil"]
TransportErr == [t |-> "other"]

\* Token counts an error message may carry ("maximum context length is M
\* tokens. However, your messages resulted in N tokens"), or none.
NoTok == <<0, 0>>
TokInfos == {NoTok, <<2, 1>>, <<2, 2>>, <<2, 3>>}

APIErr(status, code, tok) == [t |-> "api", status |-> status, code |-> code, tok |-> tok]

\* Errors that are *openai.Error: an HTTP status, a code, a message.
APIErrors ==
    {APIErr(s, "", NoTok) : s \in {400, 401, 404, 429, 500, 503}}
    \cup {APIErr(400, "context_length_exceeded", k) : k \in TokInfos}

\* Only the OpenAI client (and Google's handleErrorResp) hands out
\* *openai.Error; the other SDKs have error types of their own.
OpenAIFamily == {"openai", "groq"}
StreamKinds == {"openai", "anthropic", "google", "cohere", "ollama"}

KindOf(api) == IF api \in OpenAIFamily THEN "openai" ELSE api

ErrorsOf(kind) ==
    IF kind \in {"openai", "google"} THEN APIErrors \cup {TransportErr}
    ELSE {TransportErr}

SupportsTools(kind) == kind \in {"openai", "anthropic", "ollama"}

\* What the provider may deliver next on the open response.
\*   left:  data events the response may still carry
\*   calls: tool calls made in this response
\*   fresh: nothing of the response has been delivered yet
\*   over:  the response has ended (cleanly or with an error)
\*   reqs:  requests the stream has opened
\*   tools: the request offers tools (the MCP servers of the settings)
NewResponse(reqs, tools) == [left |-> MaxChunks, calls |-> 0, fresh |-> TRUE,
                             over |-> FALSE, reqs |-> reqs, tools |-> tools]

EvText == [t |-> "text"]
EvEmpty == [t |-> "empty"]
EvEnd == [t |-> "end"]
EvNone == [t |-> "none"]
EvTool(n) == [t |-> "tool", name |-> n]
EvErr(e) == [t |-> "err", e |-> e]

DataEvents(kind, p) ==
    IF p.over \/ p.left = 0 THEN {}
    ELSE {EvText, EvEmpty}
         \cup (IF SupportsTools(kind) /\ p.tools /\ p.calls < MaxToolCalls
               THEN {EvTool(ToolNameAt(p.calls + 1))} ELSE {})

\* A status-coded failure answers the request itself; a transport failure
\* may strike at any point of the response.
ErrEvents(kind, p) ==
    IF p.over THEN {}
    ELSE {EvErr(e) : e \in IF p.fresh THEN ErrorsOf(kind) ELSE {TransportErr}}

EndEvents(p) == IF p.over THEN {} ELSE {EvEnd}

Deliver(p, ev) ==
    IF ev.t = "none" THEN p
    ELSE [p EXCEPT !.fresh = FALSE,
                   !.left = IF ev.t \in {"text", "empty", "tool"} THEN @ - 1 ELSE @,
                   !.calls = IF ev.t = "tool" THEN @ + 1 ELSE @,
                   !.over = ev.t \in {"end", "err"}]

(***************************************************************************)
(* stream.CallTool: one tool call through the caller; an error with no     *)
(* content becomes the content.                                            *)
(***************************************************************************)
ToolOutcomes == {[content |-> <<"o">>, err |-> FALSE],
                 [content |-> << >>, err |-> TRUE],
                 [content |-> <<"o">>, err |-> TRUE]}

ErrText == <<"E">>

CallTool(id, name, out) ==
    [msg |-> Msg(RoleTool,
                 IF out.content = << >> /\ out.err THEN ErrText ELSE out.content,
                 <<[id |-> id, name |-> name, isError |-> out.err]>>),
     status |-> [name |-> name, err |-> out.err]]

\* The tool results of calls, in order, given one caller outcome per call.
ToolResults(calls, outs) ==
    [i \in 1..Len(calls) |-> CallTool(calls[i].id, calls[i].name, outs[i])]

ResultMsgs(calls, outs) == [i \in 1..Len(calls) |-> ToolResults(calls, outs)[i].msg]
ResultStatuses(calls, outs) == [i \in 1..Len(calls) |-> ToolResults(calls, outs)[i].status]

(***************************************************************************)
(* The stream of an adapter.  One record serves the five adapters:         *)
(*   done      Stream.done (google: isFinished)                            *)
(*   err       Stream.err, or the error of the underlying SSE stream       *)
(*   request   the messages of the provider request                        *)
(*   messages  Stream.messages                                             *)
(*   message   the accumulated assistant message of the turn               *)
(*   cur       the event the underlying SSE stream is positioned on        *)
(*   reader    google: the response reader exists                          *)
(*   closed    times the transport was closed                              *)
(*   respCh    ollama: the response channel is open                        *)
(***************************************************************************)
EmptyMessage == [content |-> << >>, calls |-> << >>, choices |-> FALSE]

InitStream(kind, msgs, e) ==
    [kind |-> kind, done |-> FALSE, err |-> e, request |-> msgs,
     messages |-> msgs, message |-> EmptyMessage, cur |-> EvNone,
     reader |-> (e = NoErr), closed |-> 0, respCh |-> TRUE]

\* Accumulation of one event into the running assistant message.
\* openai: ChatCompletionAccumulator.AddChunk; a chunk without choices adds
\* nothing.  Tool call ids are the ordinal of the call in the turn.
Accumulate(m, ev) ==
    IF ev.t = "text"
    THEN [m EXCEPT !.content = @ \o <<"r">>, !.choices = TRUE]
    ELSE IF ev.t = "tool"
    THEN [m EXCEPT !.calls = Append(@, [id |-> Len(@) + 1, name |-> ev.name,
                                        isError |-> FALSE]),
                   !.choices = TRUE]
    ELSE m

\* toProtoMessage of the accumulated message.
toProtoMessage(m) == Msg(RoleAssistant, m.content, m.calls)

NoContent == [t |-> "ErrNoContent"]
Panic == [t |-> "panic"]

(***************************************************************************)
(* Stream.Next of each adapter.  An outcome is the stream and the provider *)
(* after the call, the value returned, and the request messages sent when  *)
(* the call opened a new provider request (<<>> wrapped in a sequence of   *)
(* length 0 or 1).                                                         *)
(***************************************************************************)
NextOut(s, p, ret, sentNow) == [s |-> s, p |-> p, ret |-> ret, sent |-> sentNow]

\* openai.Stream.Next and anthropic.Stream.Next: a finished stream is
\* reopened through the factory; when the underlying stream has no further
\* event the accumulated message is appended and false is returned.
sseAppendsAlways(kind) == kind = "anthropic"

sseNext(s, p) ==
    LET reopen == s.done
        s1 == IF reopen
              THEN [s EXCEPT !.done = FALSE, !.message = EmptyMessage,
                             !.err = NoErr, !.cur = EvNone]
              ELSE s
        p1 == IF reopen THEN NewResponse(p.reqs + 1, p.tools) ELSE p
        sentNow == IF reopen THEN <<s.request>> ELSE << >>
        finish(ev) ==
            LET add == sseAppendsAlways(s1.kind) \/ s1.message.choices
            IN  [s1 EXCEPT !.done = TRUE,
                           !.cur = EvNone,
                           !.err = IF ev.t = "err" THEN ev.e ELSE NoErr,
                           !.request = IF add THEN Append(@, toProtoMessage(s1.message)) ELSE @,
                           !.messages = IF add THEN Append(@, toProtoMessage(s1.message)) ELSE @]
    IN  IF reopen /\ p.reqs >= MaxRequests THEN {}
        ELSE {NextOut([s1 EXCEPT !.cur = ev], Deliver(p1, ev), TRUE, sentNow) :
                  ev \in DataEvents(s1.kind, p1)}
             \cup {NextOut(finish(ev), Deliver(p1, ev), FALSE, sentNow) :
                       ev \in EndEvents(p1) \cup ErrEvents(s1.kind, p1)}

\* google.Stream.Next
googleNext(s, p) == {NextOut(s, p, ~s.done, << >>)}

\* cohere.Stream.Next
cohereNext(s, p) == {NextOut(s, p, IF s.err # NoErr THEN FALSE ELSE ~s.done, << >>)}

\* ollama.Stream.Next.  The Chat worker may have failed and stored its
\* error before the call.  On a finished response the factory starts a new
\* worker, which reads the request while Next appends the assistant
\* message to it: the request it sends may or may not hold that message.
ollamaNext(s, p) ==
    LET after(e) ==
            LET s0 == IF e = NoErr THEN s ELSE [s EXCEPT !.err = e]
                p0 == IF e = NoErr THEN p ELSE Deliver(p, EvErr(e))
                reopened == [s0 EXCEPT !.done = FALSE, !.err = NoErr, !.respCh = TRUE,
                                       !.messages = Append(@, toProtoMessage(s0.message)),
                                       !.request = Append(@, toProtoMessage(s0.message)),
                                       !.message = EmptyMessage]
            IN  IF s0.err # NoErr THEN {NextOut(s0, p0, FALSE, << >>)}
                ELSE IF s0.done
                THEN IF p0.reqs >= MaxRequests THEN {}
                     ELSE {NextOut(reopened, NewResponse(p0.reqs + 1, p0.tools), TRUE, <<r>>) :
                               r \in {s0.request, reopened.request}}
                ELSE {NextOut(s0, p0, TRUE, << >>)}
    IN  UNION {after(e) : e \in {NoErr} \cup {ev.e : ev \in ErrEvents(s.kind, p)}}

StreamNext(s, p) ==
    IF s.kind \in {"openai", "anthropic"} THEN sseNext(s, p)
    ELSE IF s.kind = "google" THEN googleNext(s, p)
    ELSE IF s.kind = "cohere" THEN cohereNext(s, p)
    ELSE ollamaNext(s, p)

(***************************************************************************)
(* Stream.Current of each adapter: the chunk content and the error.        *)
(***************************************************************************)
CurOut(s, p, content, err) == [s |-> s, p |-> p, content |-> content, err |-> err]

ChunkText(ev) == IF ev.t = "text" THEN <<"r">> ELSE << >>

\* openai.Stream.Current: a chunk with choices yields its delta content,
\* a chunk without choices yields NoContent.
openaiCurrent(s, p) ==
    LET m == Accumulate(s.message, s.cur)
    IN  {CurOut([s EXCEPT !.message = m], p, ChunkText(s.cur),
                IF s.cur.t \in {"text", "tool"} THEN NoErr ELSE NoContent)}

\* anthropic.Stream.Current: only a text delta yields a chunk.
anthropicCurrent(s, p) ==
    LET m == Accumulate(s.message, s.cur)
    IN  {CurOut([s EXCEPT !.message = m], p, ChunkText(s.cur),
                IF s.cur.t = "text" THEN NoErr ELSE NoContent)}

\* google.Stream.Current: reads the response; the end of the body sets
\* isFinished.  A stream whose request failed has no reader.
googleCurrent(s, p) ==
    IF ~s.reader THEN {CurOut(s, p, << >>, Panic)}
    ELSE {CurOut(s, Deliver(p, ev), ChunkText(ev),
                 IF ev.t = "text" THEN NoErr ELSE NoContent) :
              ev \in DataEvents(s.kind, p)}
         \cup {CurOut([s EXCEPT !.done = TRUE], Deliver(p, EvEnd), << >>, NoContent)}
         \cup (IF p.over THEN {}
               ELSE {CurOut(s, Deliver(p, EvErr(TransportErr)), << >>, TransportErr)})

\* cohere.Stream.Current: the end of the stream (io.EOF) yields NoContent
\* and leaves the stream as it is.
cohereCurrent(s, p) ==
    {CurOut([s EXCEPT !.message = Accumulate(@, ev)], Deliver(p, ev), ChunkText(ev),
            IF ev.t = "text" THEN NoErr ELSE NoContent) :
         ev \in DataEvents(s.kind, p)}
    \cup {CurOut(s, Deliver(p, EvEnd), << >>, NoContent)}
    \cup {CurOut(s, Deliver(p, ev), << >>, ev.e) : ev \in ErrEvents(s.kind, p)}

\* ollama.Stream.Current: a non-blocking receive from the response channel.
ollamaCurrent(s, p) ==
    {CurOut(s, p, << >>, NoContent)}
    \cup {CurOut([s EXCEPT !.message = Accumulate(@, ev)], Deliver(p, ev),
                 ChunkText(ev), NoErr) : ev \in DataEvents(s.kind, p)}
    \cup {CurOut([s EXCEPT !.done = TRUE], Deliver(p, ev), << >>, NoErr) :
              ev \in EndEvents(p)}

StreamCurrent(s, p) ==
    IF s.kind = "openai" THEN openaiCurrent(s, p)
    ELSE IF s.kind = "anthropic" THEN anthropicCurrent(s, p)
    ELSE IF s.kind = "google" THEN googleCurrent(s, p)
    ELSE IF s.kind = "cohere" THEN cohereCurrent(s, p)
    ELSE ollamaCurrent(s, p)

(***************************************************************************)
(* Stream.CallTools, Stream.Messages, Stream.Err, Stream.Close.            *)
(***************************************************************************)
ToolOut(s, statuses, panic) == [s |-> s, statuses |-> statuses, panic |-> panic]

\* openai / anthropic / ollama CallTools: every call of the accumulated
\* message goes through CallTool; its result is appended to the request
\* and to the messages.
callAll(s) ==
    {ToolOut([s EXCEPT !.request = @ \o ResultMsgs(s.message.calls, outs),
                       !.messages = @ \o ResultMsgs(s.message.calls, outs)],
             ResultStatuses(s.message.calls, outs), FALSE) :
         outs \in [1..Len(s.message.calls) -> ToolOutcomes]}

\* openai.Stream.CallTools indexes Choices[0] of the accumulator.
openaiCallTools(s) ==
    IF ~s.message.choices THEN {ToolOut(s, << >>, TRUE)} ELSE callAll(s)

StreamCallTools(s) ==
    IF s.kind = "openai" THEN openaiCallTools(s)
    ELSE IF s.kind \in {"anthropic", "ollama"} THEN callAll(s)
    ELSE {ToolOut(s, << >>, FALSE)}

\* cohere: fromProtoRole / toProtoMessages keep system, user and assistant.
cohereRole(r) == IF r \in {RoleSystem, RoleAssistant} THEN r ELSE RoleUser

\* cohere.Stream.Messages: the history, the user message of the request and
\* the accumulated reply.  Every history entry was built with its Chatbot
\* field only, so reading the text of a USER or SYSTEM entry dereferences nil.
cohereMessages(s) ==
    LET n == Len(s.request)
    IN  IF \E i \in 1..(n - 1) : cohereRole(s.request[i].role) # RoleAssistant
        THEN Panic
        ELSE [i \in 1..n |->
                 Msg(IF i = n THEN RoleUser ELSE RoleAssistant, s.request[i].content, << >>)]
             \o <<Msg(RoleAssistant, s.message.content, << >>)>>

StreamMessages(s) ==
    IF s.kind = "google" THEN << >>
    ELSE IF s.kind = "cohere" THEN cohereMessages(s)
    ELSE s.messages

StreamErr(s) == s.err

StreamClose(s) ==
    [s EXCEPT !.closed = @ + 1,
              !.done = IF s.kind \in {"cohere", "ollama"} THEN TRUE ELSE @,
              !.respCh = IF s.kind = "ollama" THEN FALSE ELSE @]

\* Whether Close() panics.  ollama closes its response channel, and closing
\* a closed channel panics; google closes the body of a response that a
\* failed request never set.  The other adapters close the stream of their
\* client library, which accepts it.
ClosePanics(s) ==
    \/ s.kind = "ollama" /\ ~s.respCh
    \/ s.kind = "google" /\ ~s.reader

(***************************************************************************)
(* The stream contract, exercised by a caller that follows the interface   *)
(* comment of stream.Stream: "Next returns false when there are no more    *)
(* messages; the caller should then run CallTools and check Next again".   *)
(* The stream is the one Client.Request returned for a one-message thread. *)
(***************************************************************************)
BaseThread == <<Msg(RoleUser, <<"q">>, << >>)>>

Sent(model, msgs) == [model |-> model, messages |-> msgs]

NoHist == [call |-> "none", prev |-> "none", ret |-> TRUE, opened |-> FALSE, final |-> FALSE,
           wasFinal |-> FALSE, atEnd |-> FALSE, round |-> << >>, statuses |-> << >>]

\* The history after Next was called on stream s facing provider p, with
\* outcome o.
NextHist(h, s, p, o) ==
    [h EXCEPT !.call = "Next",
              !.prev = h.call,
              !.ret = o.ret,
              !.opened = o.sent # << >>,
              !.wasFinal = h.final,
              !.atEnd = p.over \/ o.p.over,
              !.round = s.message.calls,
              !.final = @ \/ (~o.ret /\ o.s.err = NoErr
                               /\ s.message.calls = << >>
                               /\ o.s.message.calls = << >>)]

\* The history after CallTools was called on stream s, with outcome o.
ToolsHist(h, s, o) ==
    [h EXCEPT !.call = IF o.panic THEN "Panic" ELSE "CallTools",
              !.prev = h.call,
              !.round = s.message.calls,
              !.statuses = o.statuses]

StreamIdle ==
    /\ strm = InitStream("openai", << >>, NoErr)
    /\ prov = NewResponse(0, FALSE)
    /\ sent = << >>
    /\ hpc = "idle"
    /\ hist = NoHist

\* google.Client.Request and cohere.Client.Request learn of a failed
\* request at once and hand out a stream that carries the error.
RequestErrors(kind) ==
    IF kind \in {"google", "cohere"} THEN {NoErr} \cup ErrorsOf(kind) ELSE {NoErr}

Requested(e, tools) ==
    IF e = NoErr THEN NewResponse(1, tools) ELSE Deliver(NewResponse(1, tools), EvErr(e))

StreamInit ==
    \E kind \in StreamKinds : \E e \in RequestErrors(kind) :
        /\ strm = InitStream(kind, BaseThread, e)
        /\ prov = Requested(e, TRUE)
        /\ sent = <<Sent("m", BaseThread)>>
        /\ hpc = "next"
        /\ hist = NoHist

\* The caller calls Next.
HNext ==
    /\ hpc = "next"
    /\ \E o \in StreamNext(strm, prov) :
        /\ strm' = o.s
        /\ prov' = o.p
        /\ sent' = IF o.sent = << >> THEN sent ELSE Append(sent, Sent("m", o.sent[1]))
        /\ hpc' = IF o.ret THEN "current" ELSE "afterFalse"
        /\ hist' = NextHist(hist, strm, prov, o)
    /\ UNCHANGED <<storeVars, sessionVars, auxVars>>

\* Next returned true: the caller calls Current; an error other than
\* NoContent ends its use of the stream with Close.
HCurrent ==
    /\ hpc = "current"
    /\ \E o \in StreamCurrent(strm, prov) :
        /\ strm' = IF o.err \in {NoErr, NoContent, Panic} THEN o.s ELSE StreamClose(o.s)
        /\ prov' = o.p
        /\ hpc' = IF o.err = Panic THEN "panic"
                  ELSE IF o.err \in {NoErr, NoContent} THEN "next" ELSE "stopped"
        /\ hist' = [hist EXCEPT !.call = "Current", !.prev = hist.call]
    /\ UNCHANGED <<sent, storeVars, sessionVars, auxVars>>

\* Next returned false and Err() is nil: the caller calls CallTools and
\* goes back to Next.
HCallTools ==
    /\ hpc = "afterFalse"
    /\ StreamErr(strm) = NoErr
    /\ \E o \in StreamCallTools(strm) :
        /\ strm' = o.s
        /\ hpc' = IF o.panic THEN "panic" ELSE "next"
        /\ hist' = ToolsHist(hist, strm, o)
    /\ UNCHANGED <<prov, sent, storeVars, sessionVars, auxVars>>

\* Next returned false and Err() is not nil: the caller stops.
HStop ==
    /\ hpc = "afterFalse"
    /\ StreamErr(strm) # NoErr
    /\ hpc' = "stopped"
    /\ hist' = [hist EXCEPT !.call = "Err", !.prev = hist.call]
    /\ UNCHANGED <<strm, prov, sent, storeVars, sessionVars, auxVars>>

StreamNextStep == HNext \/ HCurrent \/ HCallTools \/ HStop

\* The caller is done with the stream, wherever it stands, and calls
\* Close; it may call Close again.
HClose ==
    /\ hpc \in {"next", "current", "afterFalse", "stopped", "closed"}
    /\ strm.closed < MaxCloses
    /\ IF ClosePanics(strm)
       THEN strm' = strm /\ hpc' = "panic"
       ELSE strm' = StreamClose(strm) /\ hpc' = "closed"
    /\ hist' = [hist EXCEPT !.call = "Close", !.prev = hist.call]
    /\ UNCHANGED <<prov, sent, storeVars, sessionVars, auxVars>>

StreamCloseStep == HNext \/ HCurrent \/ HCallTools \/ HStop \/ HClose

(***************************************************************************)
(* The ollama stream with its worker.  The factory starts a goroutine that *)
(* runs Chat; Chat hands every response to Stream.fn, which sends it on    *)
(* the unbuffered s.respCh; Current receives without blocking.  The caller *)
(* (Next, Current, Err, Close) and the worker take their steps in any      *)
(* order.                                                                  *)
(*   worker.pc   chat: in Chat, waiting for the provider                   *)
(*               send: in fn, at  s.respCh <- resp                         *)
(*               returned: Chat has returned                               *)
(*               panic: the send panicked                                  *)
(***************************************************************************)
Chatting == [pc |-> "chat", resp |-> EvNone]
Sending(ev) == [pc |-> "send", resp |-> ev]
Returned == [pc |-> "returned", resp |-> EvNone]
SendPanicked == [pc |-> "panic", resp |-> EvNone]

\* ollama.Client.Request: the stream is returned with the worker started.
OllamaInit ==
    \E tools \in BOOLEAN :
        /\ strm = InitStream("ollama", BaseThread, NoErr)
        /\ prov = NewResponse(1, tools)
        /\ sent = <<Sent("m", BaseThread)>>
        /\ hpc = "next"
        /\ hist = NoHist
        /\ worker = Chatting

\* Chat reads one response of the provider and calls fn with it.
ChatResponse ==
    /\ worker.pc = "chat"
    /\ \E ev \in DataEvents("ollama", prov) \cup EndEvents(prov) :
        /\ prov' = Deliver(prov, ev)
        /\ worker' = Sending(ev)
    /\ UNCHANGED <<strm, sent, hpc, hist, storeVars, sessionVars, temp, ctxs, mcps, unit>>

\* Chat fails: the goroutine stores the error in s.err and ends.
ChatFails ==
    /\ worker.pc = "chat"
    /\ \E ev \in ErrEvents("ollama", prov) :
        /\ prov' = Deliver(prov, ev)
        /\ strm' = [strm EXCEPT !.err = ev.e]
    /\ worker' = Returned
    /\ UNCHANGED <<sent, hpc, hist, storeVars, sessionVars, temp, ctxs, mcps, unit>>

\* Stream.fn:  s.respCh <- resp  on a channel that is closed panics,
\* whether the worker was blocked in the send when Close ran or came to
\* the send after it.
FnSendsOnClosed ==
    /\ worker.pc = "send"
    /\ ~strm.respCh
    /\ worker' = SendPanicked
    /\ UNCHANGED <<strm, prov, sent, hpc, hist, storeVars, sessionVars, temp, ctxs, mcps, unit>>

\* Stream.Next
OllamaNext ==
    /\ hpc = "next"
    /\ IF strm.err # NoErr
       THEN /\ hpc' = "afterFalse"
            /\ UNCHANGED <<strm, prov, sent, worker>>
       ELSE IF strm.done
       THEN /\ prov.reqs < MaxRequests
            /\ strm' = [strm EXCEPT !.done = FALSE, !.err = NoErr, !.respCh = TRUE,
                                    !.messages = Append(@, toProtoMessage(strm.message)),
                                    !.request = Append(@, toProtoMessage(strm.message)),
                                    !.message = EmptyMessage]
            /\ prov' = NewResponse(prov.reqs + 1, prov.tools)
            /\ \E r \in {strm.request, strm'.request} :
                   sent' = Append(sent, Sent("m", r))
            /\ worker' = Chatting
            /\ hpc' = "current"
       ELSE /\ hpc' = "current"
            /\ UNCHANGED <<strm, prov, sent, worker>>
    /\ hist' = [hist EXCEPT !.call = "Next", !.prev = hist.call, !.ret = strm.err = NoErr]
    /\ UNCHANGED <<storeVars, sessionVars, temp, ctxs, mcps, unit>>

\* Stream.Current: the select takes a response when the worker stands at
\* its send, and the zero response when the channel is closed; otherwise
\* the default branch answers ErrNoContent.
OllamaCurrent ==
    /\ hpc = "current"
    /\ IF strm.respCh /\ worker.pc = "send"
       THEN /\ strm' = IF worker.resp.t = "end"
                       THEN [strm EXCEPT !.done = TRUE]
                       ELSE [strm EXCEPT !.message = Accumulate(@, worker.resp)]
            /\ worker' = IF worker.resp.t = "end" THEN Returned ELSE Chatting
       ELSE UNCHANGED <<strm, worker>>
    /\ hpc' = "next"
    /\ hist' = [hist EXCEPT !.call = "Current", !.prev = hist.call]
    /\ UNCHANGED <<prov, sent, storeVars, sessionVars, temp, ctxs, mcps, unit>>

\* Next returned false: the caller reads Err() and stops.
OllamaErr ==
    /\ hpc = "afterFalse"
    /\ hpc' = "stopped"
    /\ hist' = [hist EXCEPT !.call = "Err", !.prev = hist.call]
    /\ UNCHANGED <<strm, prov, sent, worker, storeVars, sessionVars, temp, ctxs, mcps, unit>>

\* Stream.Close, called once, wherever the caller stands.
OllamaClose ==
    /\ hpc \in {"next", "current", "afterFalse", "stopped"}
    /\ strm' = StreamClose(strm)
    /\ hpc' = "closed"
    /\ hist' = [hist EXCEPT !.call = "Close", !.prev = hist.call]
    /\ UNCHANGED <<prov, sent, worker, storeVars, sessionVars, temp, ctxs, mcps, unit>>

OllamaStep ==
    ChatResponse \/ ChatFails \/ FnSendsOnClosed
        \/ OllamaNext \/ OllamaCurrent \/ OllamaErr \/ OllamaClose

(***************************************************************************)
(* Text functions of the coordinator (part_000, messages.go).              *)
(***************************************************************************)
Whitespace == {" ", "\t", "\n"}

RECURSIVE TrimLeft(_)
TrimLeft(s) == IF s # << >> /\ Head(s) \in Whitespace THEN TrimLeft(Tail(s)) ELSE s

RECURSIVE TrimRight(_)
TrimRight(s) ==
    IF s # << >> /\ s[Len(s)] \in Whitespace
    THEN TrimRight(SubSeq(s, 1, Len(s) - 1)) ELSE s

TrimSpace(s) == TrimRight(TrimLeft(s))

removeWhitespace(s) == IF TrimSpace(s) = << >> THEN << >> ELSE s

\* increaseIndent: a tab in front of every line.
RECURSIVE IndentRest(_)
IndentRest(s) ==
    IF s = << >> THEN << >>
    ELSE IF Head(s) = "\n" THEN <<"\n", "\t">> \o IndentRest(Tail(s))
    ELSE <<Head(s)>> \o IndentRest(Tail(s))

increaseIndent(s) == <<"\t">> \o IndentRest(s)

RECURSIVE firstLine(_)
firstLine(s) ==
    IF s = << >> \/ Head(s) = "\n" THEN << >> ELSE <<Head(s)>> \o firstLine(Tail(s))

\* The loop of lastPrompt with the test of the content left out.
RECURSIVE lastPromptLoopAnyContent(_, _)
lastPromptLoopAnyContent(messages, result) ==
    IF messages = << >> THEN result
    ELSE IF Head(messages).role # RoleUser
         THEN lastPromptLoopAnyContent(Tail(messages), result)
    ELSE lastPromptLoopAnyContent(Tail(messages), Head(messages).content)

\* The loop of lastPrompt: the messages left, and result so far.
RECURSIVE lastPromptLoop(_, _)
lastPromptLoop(messages, result) ==
    IF messages = << >> THEN result
    ELSE IF Head(messages).role # RoleUser
         THEN lastPromptLoop(Tail(messages), result)
    ELSE IF Head(messages).content = << >>
         THEN lastPromptLoop(Tail(messages), result)
    ELSE lastPromptLoop(Tail(messages), Head(messages).content)

lastPrompt(messages) == lastPromptLoop(messages, << >>)

\* cutPrompt that clamps at the empty prompt instead of giving up.
cutPromptClamped(tok, prompt) ==
    IF tok = NoTok THEN prompt
    ELSE LET reduceBy == 10 + (tok[2] - tok[1]) * 4
         IN  IF tok[1] > tok[2] THEN prompt
             ELSE IF Len(prompt) > reduceBy
                  THEN SubSeq(prompt, 1, Len(prompt) - reduceBy)
             ELSE << >>

\* cutPrompt: tok is the pair (max, current) of the error message, or NoTok
\* when the message does not match tokenErrRe.
cutPrompt(tok, prompt) ==
    IF tok = NoTok THEN prompt
    ELSE LET maxt == tok[1]
             current == tok[2]
             reduceBy == 10 + (current - maxt) * 4
         IN  IF maxt > current THEN prompt
             ELSE IF Len(prompt) > reduceBy
                  THEN SubSeq(prompt, 1, Len(prompt) - reduceBy)
             ELSE prompt

(***************************************************************************)
(* Settings: every API endpoint lists the models "m" and "f"; "m" may      *)
(* declare "f" as its fallback.                                            *)
(***************************************************************************)
SettingsModels == {"m", "f"}
MaxChars == MaxPromptLen + 2

resolveModel(cfg) ==
    IF cfg.API \in APINames /\ cfg.Model \in SettingsModels
    THEN [err |-> NoErr,
          mod |-> [Name |-> cfg.Model, API |-> cfg.API,
                   Fallback |-> IF cfg.Model = "m" /\ cfg.fallback THEN "f" ELSE "",
                   MaxChars |-> MaxChars]]
    ELSE [err |-> [t |-> "mods", reason |-> "model not in settings"]]

(***************************************************************************)
(* The blob cache (cache.go): gob-encoded threads, one file per id.        *)
(*                                                                         *)
(* gob does not transmit a field that holds the zero value of its type,    *)
(* and the decoder does not clear the destination: it merges what it read  *)
(* into the slice it is given, element by element, unless the slice is     *)
(* too small (cap < n), in which case it allocates a new one.  A blob that *)
(* encode wrote always decodes, so the pre-MCP fallback of decode is not   *)
(* taken.                                                                  *)
(***************************************************************************)
MsgFields == {"role", "content", "calls"}
ZeroMsg == Msg("", << >>, << >>)

encodeMsg(m) == [f \in {g \in MsgFields : m[g] # ZeroMsg[g]} |-> m[f]]

encode(messages) == [gob |-> [i \in 1..Len(messages) |-> encodeMsg(messages[i])]]

\* The capacity of a slice grown by appending its elements one at a time.
SliceCap(dest) ==
    IF Len(dest) <= 2 THEN Len(dest) ELSE IF Len(dest) <= 4 THEN 4 ELSE 2 * Len(dest)

decode(blob, dest) ==
    LET n == Len(blob.gob)
        base(i) == IF SliceCap(dest) >= n /\ i <= Len(dest) THEN dest[i] ELSE ZeroMsg
        field(i, f) == IF f \in DOMAIN blob.gob[i] THEN blob.gob[i][f] ELSE base(i)[f]
    IN  [i \in 1..n |-> Msg(field(i, "role"), field(i, "content"), field(i, "calls"))]

\* A blob of the format from before the tool calls: gob rejects its type
\* for []proto.Message before it decodes a value, and decode reads the
\* bytes again as []noCallMessage, the fields Content and Role of every
\* message, and appends a message for each to the caller's slice.
noCallMessage(role, content) == [Role |-> role, Content |-> content]

\* The second reading with the role of a message left behind.
decodeNoCallsContent(noCalls, dest) ==
    dest \o [i \in 1..Len(noCalls) |-> Msg("", noCalls[i].Content, << >>)]

decodeNoCalls(noCalls, dest) ==
    dest \o [i \in 1..Len(noCalls) |->
                 Msg(noCalls[i].Role, noCalls[i].Content, << >>)]

\* Cache.Read into the slice dest.
cacheRead(b, id, dest) ==
    IF id = << >> \/ b[id] = NoBlob THEN [err |-> TRUE]
    ELSE [err |-> FALSE, messages |-> decode(b[id], dest)]

cacheWrite(b, id, messages) == [b EXCEPT ![id] = encode(messages)]

\* Cache.Delete: os.Remove fails when there is no file.
cacheDeleteErr(b, id) == id = << >> \/ b[id] = NoBlob
cacheDelete(b, id) == IF id = << >> THEN b ELSE [b EXCEPT ![id] = NoBlob]

\* The errors of the caches: errInvalidID for a blank id; what os.Open and
\* os.Remove return for a missing file, which is os.ErrNotExist under the
\* %w wrapping; an error made of a text only.
ErrInvalidID == [t |-> "errInvalidID"]
ErrNotExist == [t |-> "os.ErrNotExist"]
ErrPlain == [t |-> "text"]

\* Cache.Read, Cache.Write, Cache.Delete: the error returned.
cacheReadError(b, id) ==
    IF id = << >> THEN ErrInvalidID ELSE IF b[id] = NoBlob THEN ErrNotExist ELSE NoErr
cacheWriteError(b, id) == IF id = << >> THEN ErrInvalidID ELSE NoErr
cacheDeleteError(b, id) ==
    IF id = << >> THEN ErrInvalidID ELSE IF b[id] = NoBlob THEN ErrNotExist ELSE NoErr

(***************************************************************************)
(* The expiring cache (internal/cache/expiring.go).  A file is named       *)
(* "<id>.<expiresAt>"; every operation starts from the files that         *)
(* filepath.Glob finds for the pattern "<id>.*", in the order of their     *)
(* names.  A file is kept as the id and the expiry it was written with and *)
(* its data; its name is computed from them.                               *)
(***************************************************************************)
Digits == <<"0", "1", "2", "3", "4", "5", "6", "7", "8", "9">>

\* fmt's %d of an int64.
RECURSIVE ItoaNat(_)
ItoaNat(n) ==
    IF n < 10 THEN <<Digits[n + 1]>>
    ELSE ItoaNat(n \div 10) \o <<Digits[(n % 10) + 1]>>

Itoa(n) == IF n < 0 THEN <<"-">> \o ItoaNat(-n) ELSE ItoaNat(n)

\* strconv.ParseInt(s, 10, 64): whether it succeeds, and its value.
IsInt(str) ==
    LET d == IF str # << >> /\ Head(str) \in {"-", "+"} THEN Tail(str) ELSE str
    IN  d # << >> /\ \A i \in 1..Len(d) : d[i] \in DecDigits

RECURSIVE AtoiNat(_)
AtoiNat(d) ==
    IF d = << >> THEN 0
    ELSE 10 * AtoiNat(SubSeq(d, 1, Len(d) - 1))
             + ((CHOOSE i \in 1..10 : Digits[i] = d[Len(d)]) - 1)

ParseInt(str) ==
    IF Head(str) = "-" THEN -AtoiNat(Tail(str))
    ELSE IF Head(str) = "+" THEN AtoiNat(Tail(str))
    ELSE AtoiNat(str)

\* strings.Split(s, ".")
RECURSIVE SplitDot(_)
SplitDot(str) ==
    IF \A i \in 1..Len(str) : str[i] # "." THEN <<str>>
    ELSE LET i == CHOOSE k \in 1..Len(str) :
                      str[k] = "." /\ \A j \in 1..(k - 1) : str[j] # "."
         IN  <<SubSeq(str, 1, i - 1)>> \o SplitDot(SubSeq(str, i + 1, Len(str)))

\* filepath.Match for a pattern of literals, '*', '?' and classes that list
\* their characters ("[ab]"); a class that is not closed matches nothing.
RECURSIVE Match(_, _)
Match(pat, name) ==
    IF pat = << >> THEN name = << >>
    ELSE IF Head(pat) = "*"
         THEN Match(Tail(pat), name) \/ (name # << >> /\ Match(pat, Tail(name)))
    ELSE IF name = << >> THEN FALSE
    ELSE IF Head(pat) = "?" THEN Match(Tail(pat), Tail(name))
    ELSE IF Head(pat) = "["
         THEN /\ \E k \in 3..Len(pat) : pat[k] = "]"
              /\ LET k == CHOOSE c \in 3..Len(pat) :
                               pat[c] = "]" /\ \A j \in 3..(c - 1) : pat[j] # "]"
                 IN  /\ \E j \in 2..(k - 1) : pat[j] = Head(name)
                     /\ Match(SubSeq(pat, k + 1, Len(pat)), Tail(name))
    ELSE Head(pat) = Head(name) /\ Match(Tail(pat), Tail(name))

\* The characters of the names, in the order of their codes.
CharOrder == <<"*", "-", ".", "0", "1", "2", "3", "4", "5", "6", "7", "8", "9",
               "?", "[", "]", "a", "b", "c", "d", "e", "f", "t">>

CharCode(c) == CHOOSE i \in 1..Len(CharOrder) : CharOrder[i] = c

\* sort.Strings: a name comes before another.
RECURSIVE NameLess(_, _)
NameLess(a, b) ==
    IF b = << >> THEN FALSE
    ELSE IF a = << >> THEN TRUE
    ELSE IF Head(a) # Head(b) THEN CharCode(Head(a)) < CharCode(Head(b))
    ELSE NameLess(Tail(a), Tail(b))

\* getCacheFilename
getCacheFilename(id, expiresAt) == id \o <<".">> \o Itoa(expiresAt)

FileName(f) == getCacheFilename(f.id, f.expiresAt)

expGlob(t, id) == {f \in t : Match(id \o <<".", "*">>, FileName(f))}

Unix(t) == t \div TicksPerSec

\* An entry is expired at its deadline already.
expiredAtDeadline(expiresAt, now) == expiresAt <= now

\* expiresAt < time.Now().Unix()
expired(expiresAt, now) == expiresAt < now

\* ExpiringCache.Read at the time now: the error and the files left.
expRead(t, id, now) ==
    LET matches == expGlob(t, id)
        file == CHOOSE f \in matches :
                    \A g \in matches \ {f} : NameLess(FileName(f), FileName(g))
        parts == SplitDot(FileName(file))
    IN  IF matches = {} THEN [err |-> ErrPlain, files |-> t]
        ELSE IF Len(parts) # 2 THEN [err |-> ErrPlain, files |-> t]
        ELSE IF ~IsInt(parts[2]) THEN [err |-> ErrPlain, files |-> t]
        ELSE IF expired(ParseInt(parts[2]), Unix(now))
             THEN [err |-> ErrNotExist, files |-> t \ {file}]
        ELSE [err |-> NoErr, files |-> t, data |-> file.data]

\* A Write that leaves the old files of the id.
expWriteKeep(t, id, expiresAt, data) ==
    [err |-> NoErr,
     files |-> {f \in t : FileName(f) # getCacheFilename(id, expiresAt)}
                   \cup {[id |-> id, expiresAt |-> expiresAt, data |-> data]}]

\* ExpiringCache.Write
expWrite(t, id, expiresAt, data) ==
    [err |-> NoErr,
     files |-> {f \in t \ expGlob(t, id) :
                    FileName(f) # getCacheFilename(id, expiresAt)}
                   \cup {[id |-> id, expiresAt |-> expiresAt, data |-> data]}]

\* ExpiringCache.Delete
expDelete(t, id) == [err |-> NoErr, files |-> t \ expGlob(t, id)]

\* What the callers wrote to the cache.
Wrote(g, id, messages) == [g EXCEPT !.threads[id] = [messages |-> messages]]
Unwrote(g, id) == IF id \in IDs THEN [g EXCEPT !.threads[id] = NoEntry] ELSE g

\* convoDB.FindHEAD: the row updated last (ORDER BY updated_at DESC LIMIT 1);
\* HeadRows are the rows the query may return.
HeadRows(d) == {r \in d : \A q \in d : ~StampLess(r.updated_at, q.updated_at)}

FindHEAD(d) ==
    IF d = {} THEN [err |-> "sql.ErrNoRows"]
    ELSE [err |-> "nil", row |-> CHOOSE r \in HeadRows(d) : TRUE]

(***************************************************************************)
(* The two stores as the commands use them: cache writes, reads and        *)
(* deletes, index saves, and the delete command (--delete, repeatable).    *)
(***************************************************************************)
\* A deleteConversation that leaves the row in the index.
deleteConversationBlobOnly(d, b, convo) ==
    [db |-> d, blobs |-> cacheDelete(b, convo.id), err |-> cacheDeleteErr(b, convo.id)]

\* deleteConversation: the row first, then the blob; an error returns.
deleteConversation(d, b, convo) ==
    [db |-> DeleteRows(d, convo.id),
     blobs |-> cacheDelete(b, convo.id),
     err |-> cacheDeleteErr(b, convo.id)]

\* deleteConversations: every target in order, up to the first error.
\* done lists the conversations deleted without error.
RECURSIVE deleteConversations(_, _, _, _)
deleteConversations(d, b, targets, done) ==
    IF targets = << >> THEN [db |-> d, blobs |-> b, err |-> "nil", done |-> done]
    ELSE LET convo == Find(d, Head(targets))
         IN  IF convo.err # "nil"
             THEN [db |-> d, blobs |-> b, err |-> "find", done |-> done]
             ELSE LET r == deleteConversation(d, b, convo.row)
                  IN  IF r.err
                      THEN [db |-> r.db, blobs |-> r.blobs, err |-> "delete",
                            done |-> done]
                      ELSE deleteConversations(r.db, r.blobs, Tail(targets),
                                               Append(done, convo.row.id))

\* What is drawn: two conversations, a thread without and one with a tool
\* round, a role of two and one of three system messages as the slice a
\* Read decodes into, and a title that is the id of a conversation (the
\* first line of a prompt may be anything).
StoreIds == {ID1, ID2}

ThreadPlain == <<Msg(RoleUser, <<"q">>, << >>), Msg(RoleAssistant, <<"r">>, << >>)>>

ThreadTools ==
    <<Msg(RoleUser, <<"q">>, << >>),
      Msg(RoleAssistant, << >>, <<[id |-> 1, name |-> "s_a", isError |-> FALSE]>>),
      CallTool(1, "s_a", [content |-> <<"o">>, err |-> FALSE]).msg,
      Msg(RoleAssistant, <<"r">>, << >>)>>

Threads == {<< >>, ThreadPlain, ThreadTools}

SystemMsgs(n) == [i \in 1..n |-> Msg(RoleSystem, <<"S">>, << >>)]
ReadInto == {<< >>, SystemMsgs(2), SystemMsgs(3)}

StoreTitles == {TitleMsg, ID1}
DeleteTargets ==
    LET ins == StoreIds \cup {TitleMsg}
    IN  {<<a>> : a \in ins} \cup {<<a, c>> : a \in ins, c \in ins}

CacheWrite(id, messages) ==
    /\ blobs' = IF id = << >> THEN blobs ELSE cacheWrite(blobs, id, messages)
    /\ saved' = IF id = << >> THEN saved ELSE Wrote(saved, id, messages)
    /\ dbOp' = [op |-> "cache.Write", id |-> id, err |-> id = << >>,
                kind |-> cacheWriteError(blobs, id)]
    /\ UNCHANGED <<db, clock, streamVars, sessionVars, auxVars>>

CacheRead(id, dest) ==
    /\ dbOp' = [op |-> "cache.Read", id |-> id, dest |-> dest,
                res |-> cacheRead(blobs, id, dest),
                kind |-> cacheReadError(blobs, id),
                found |-> id # << >> /\ blobs[id] # NoBlob]
    /\ UNCHANGED <<db, blobs, clock, saved, streamVars, sessionVars, auxVars>>

CacheDelete(id) ==
    /\ blobs' = cacheDelete(blobs, id)
    /\ saved' = Unwrote(saved, id)
    /\ dbOp' = [op |-> "cache.Delete", id |-> id, err |-> cacheDeleteErr(blobs, id),
                kind |-> cacheDeleteError(blobs, id)]
    /\ UNCHANGED <<db, clock, streamVars, sessionVars, auxVars>>

DeleteCmd(targets) ==
    LET r == deleteConversations(db, blobs, targets, << >>)
    IN  /\ db' = r.db
        /\ blobs' = r.blobs
        /\ saved' = saved
        /\ dbOp' = [op |-> "delete", targets |-> targets, err |-> r.err,
                    done |-> r.done, rows |-> db, files |-> blobs]
        /\ UNCHANGED <<clock, streamVars, sessionVars, auxVars>>

SaveStored == \E id \in StoreIds, title \in StoreTitles :
                  DbSave(id, title, "openai", "gpt-4o")
WriteCall == \E id \in StoreIds \cup {<< >>}, messages \in Threads :
                 CacheWrite(id, messages)
ReadCall == \E id \in StoreIds \cup {<< >>}, dest \in ReadInto : CacheRead(id, dest)
RemoveCall == \E id \in StoreIds \cup {<< >>} : CacheDelete(id)
DeleteConversationsCall == \E targets \in DeleteTargets : DeleteCmd(targets)

\* What the callers of the expiring cache did: the last Write of each id
\* (its expiry and data) that no Delete of the id and no Read that found it
\* expired has followed, and whether an id with a dot or a pattern
\* character was ever used.
PlainId(id) == \A i \in 1..Len(id) : id[i] \notin {".", "*", "?", "[", "]"}

LastWrite(g, id) ==
    IF \E w \in g.written : w.id = id
    THEN CHOOSE w \in g.written : w.id = id
    ELSE NoEntry

Forgot(g, id) == {w \in g.written : w.id # id}

Used(g, id, written) == [g EXCEPT !.written = written, !.odd = @ \/ ~PlainId(id)]

\* The two caches as their tests use them, blank ids included.
ExpiringRead(id) ==
    LET r == expRead(temp, id, clock)
    IN  /\ temp' = r.files
        /\ dbOp' = [op |-> "expiring.Read", id |-> id, kind |-> r.err,
                    found |-> expGlob(temp, id) # {},
                    data |-> IF r.err = NoErr THEN r.data ELSE << >>,
                    follows |-> IF dbOp.op = "expiring.Write"
                                THEN [id |-> dbOp.id, over |-> dbOp.over]
                                ELSE NoEntry]
        /\ saved' = Used(saved, id, IF r.err = ErrNotExist THEN Forgot(saved, id)
                                    ELSE saved.written)
        /\ UNCHANGED <<db, blobs, clock, streamVars, sessionVars, ctxs, mcps, unit, worker>>

ExpiringWrite(id, expiresAt, data) ==
    LET r == expWrite(temp, id, expiresAt, data)
    IN  /\ temp' = r.files
        /\ dbOp' = [op |-> "expiring.Write", id |-> id, kind |-> r.err,
                    over |-> dbOp.op = "expiring.Write" /\ dbOp.id = id]
        /\ saved' = Used(saved, id,
                         Forgot(saved, id)
                             \cup {[id |-> id, expiresAt |-> expiresAt, data |-> data]})
        /\ UNCHANGED <<db, blobs, clock, streamVars, sessionVars, ctxs, mcps, unit, worker>>

ExpiringDelete(id) ==
    LET r == expDelete(temp, id)
    IN  /\ temp' = r.files
        /\ dbOp' = [op |-> "expiring.Delete", id |-> id, kind |-> r.err]
        /\ saved' = Used(saved, id, Forgot(saved, id))
        /\ UNCHANGED <<db, blobs, clock, streamVars, sessionVars, ctxs, mcps, unit, worker>>

PutCall == \E id \in StoreIds \cup {<< >>} : CacheWrite(id, ThreadPlain)
GetCall == \E id \in StoreIds \cup {<< >>} : CacheRead(id, << >>)
ExpiringReadCall == \E id \in StoreIds \cup {<< >>} : ExpiringRead(id)
ExpiringWriteCall == \E id \in StoreIds \cup {<< >>}, e \in 0..Unix(MaxClock) :
                         ExpiringWrite(id, e, <<"v">>)
ExpiringDeleteCall == \E id \in StoreIds \cup {<< >>} : ExpiringDelete(id)

CachesNext ==
    \/ PutCall
    \/ GetCall
    \/ RemoveCall
    \/ ExpiringReadCall
    \/ ExpiringWriteCall
    \/ ExpiringDeleteCall
    \/ Tick

\* The expiring cache alone, under ids that share a stem: "t", "t.0" and
\* "[t]".  An entry is written already expired, or to expire in a second.
TokT == <<"t">>
TokDot == <<"t", ".", "0">>
TokClass == <<"[", "t", "]">>
TokenIds == {TokT, TokDot, TokClass}
TokenData == {<<"v">>, <<"w">>}
Expiries == {-1, 1}

TokenRead == \E id \in TokenIds : ExpiringRead(id)
TokenWrite == \E id \in TokenIds, e \in Expiries, data \in TokenData :
                  ExpiringWrite(id, e, data)
TokenDelete == \E id \in TokenIds : ExpiringDelete(id)

TokensNext == TokenRead \/ TokenWrite \/ TokenDelete \/ Tick

StoreNext == SaveStored \/ WriteCall \/ ReadCall \/ RemoveCall \/ DeleteConversationsCall

(***************************************************************************)
(* MCP servers (part_000, mcp section): the enumeration of tools, one task *)
(* per enabled server, and the call of one tool.  A server answers, fails  *)
(* or hangs; a client call made with a context returns the context's error *)
(* once the context is done (deadline passed or cancel function called).   *)
(***************************************************************************)
SrvS == <<"s">>
SrvGh == <<"g", "h">>
SrvXY == <<"x", "_", "y">>
MCPServerNames == {SrvS, SrvGh, SrvXY}
Star == <<"*">>

ToolA == <<"a">>
ToolBC == <<"b", "_", "c">>

\* The tools each server lists.
ToolsOf(sname) == IF sname = SrvGh THEN <<ToolA, ToolBC>> ELSE <<ToolA>>

\* A server is disabled by its name alone.
isMCPEnabledByName(disable, name) == name \notin disable

\* isMCPEnabled
isMCPEnabled(disable, name) == Star \notin disable /\ name \notin disable

\* enabledMCPs
enabledMCPs(servers, disable) == {n \in servers : isMCPEnabled(disable, n)}

\* The wire name of a tool, as every adapter's fromMCPTools builds it.
WireName(sname, tool) == sname \o <<"_">> \o tool

HasUnderscore(str) == \E i \in 1..Len(str) : str[i] = "_"

\* strings.Cut(name, "_") at the last underscore.
CutLast(name) ==
    IF ~HasUnderscore(name) THEN [ok |-> FALSE]
    ELSE LET i == CHOOSE k \in 1..Len(name) :
                      name[k] = "_" /\ \A j \in (k + 1)..Len(name) : name[j] # "_"
         IN  [ok |-> TRUE, before |-> SubSeq(name, 1, i - 1),
              after |-> SubSeq(name, i + 1, Len(name))]

\* strings.Cut(name, "_"): the text before and after the first underscore.
Cut(name) ==
    IF ~HasUnderscore(name) THEN [ok |-> FALSE]
    ELSE LET i == CHOOSE k \in 1..Len(name) :
                      name[k] = "_" /\ \A j \in 1..(k - 1) : name[j] # "_"
         IN  [ok |-> TRUE, before |-> SubSeq(name, 1, i - 1),
              after |-> SubSeq(name, i + 1, Len(name))]

NoCallState == [pc |-> "none"]
NoTaskErr == [t |-> "nil"]

\* The settings and the servers of one run: which servers are configured
\* and disabled, and how each server behaves.
McpSetups ==
    {[servers |-> MCPServerNames, disable |-> d, behaves |-> b] :
        d \in {{}, {SrvS}, {SrvXY}, {Star}},
        b \in [MCPServerNames -> {"ok", "fail", "hang"}]}

McpStart(setup) ==
    [op |-> "idle", servers |-> setup.servers, disable |-> setup.disable,
     behaves |-> setup.behaves, ctxDone |-> FALSE,
     tasks |-> [n \in setup.servers |-> "none"],
     listed |-> [n \in setup.servers |-> << >>],
     result |-> [n \in {} |-> << >>],
     err |-> NoTaskErr, ret |-> [t |-> "none"], call |-> NoCallState]

McpInit == mcps \in {McpStart(g) : g \in McpSetups}

\* mcpTools: wg.Go for every enabled server.
McpToolsGo ==
    /\ mcps.op = "idle"
    /\ mcps' = [mcps EXCEPT
                   !.op = "mcpTools",
                   !.tasks = [n \in mcps.servers |->
                                 IF n \in enabledMCPs(mcps.servers, mcps.disable)
                                 THEN "running" ELSE "none"]]
    /\ UNCHANGED <<storeVars, streamVars, sessionVars, temp, ctxs, unit, worker>>

\* errgroup.Group keeps the first error a task returns.
FirstErr(cur, e) == IF cur = NoTaskErr THEN e ELSE cur

\* One task: mcpToolsFor returns.  A server that hangs lets its client
\* return only when the context is done.
TaskListed(n) ==
    /\ mcps.op = "mcpTools"
    /\ mcps.tasks[n] = "running"
    /\ mcps.behaves[n] = "hang" => mcps.ctxDone
    /\ mcps' = IF mcps.behaves[n] = "ok"
               THEN [mcps EXCEPT !.tasks[n] = "listed", !.listed[n] = ToolsOf(n)]
               ELSE [mcps EXCEPT
                        !.tasks[n] = "done",
                        !.err = FirstErr(@, [t |-> IF mcps.behaves[n] = "hang"
                                                  THEN "timeout" ELSE "failed",
                                             server |-> n])]
    /\ UNCHANGED <<storeVars, streamVars, sessionVars, temp, ctxs, unit, worker>>

\* result[sname] = append(result[sname], serverTools...) on a Go map.
mapAppend(m, k, v) ==
    [x \in DOMAIN m \cup {k} |->
        IF x # k THEN m[x] ELSE IF k \in DOMAIN m THEN m[k] \o v ELSE v]

\* One task: mu.Lock(); result[sname] = append(result[sname], ...); mu.Unlock()
TaskStore(n) ==
    /\ mcps.op = "mcpTools"
    /\ mcps.tasks[n] = "listed"
    /\ mcps' = [mcps EXCEPT
                   !.tasks[n] = "done",
                   !.result = mapAppend(@, n, mcps.listed[n])]
    /\ UNCHANGED <<storeVars, streamVars, sessionVars, temp, ctxs, unit, worker>>

\* mcpTools: wg.Wait() returns when every task has returned.
McpToolsWait ==
    /\ mcps.op = "mcpTools"
    /\ mcps.ret.t = "none"
    /\ \A n \in mcps.servers : mcps.tasks[n] \in {"none", "done"}
    /\ mcps' = [mcps EXCEPT
                   !.ret = IF mcps.err # NoTaskErr
                           THEN [t |-> "err", err |-> mcps.err]
                           ELSE [t |-> "map", map |-> mcps.result]]
    /\ UNCHANGED <<storeVars, streamVars, sessionVars, temp, ctxs, unit, worker>>

\* The deadline of the context passes, or its cancel function is called.
CtxExpires ==
    /\ mcps.op \in {"mcpTools", "toolCall"}
    /\ ~mcps.ctxDone
    /\ mcps' = [mcps EXCEPT !.ctxDone = TRUE]
    /\ UNCHANGED <<storeVars, streamVars, sessionVars, temp, ctxs, unit, worker>>

\* toolCall(ctx, name, data) up to the start of the client.
toolCallStart(servers, disable, name) ==
    LET c == Cut(name)
    IN  IF ~c.ok THEN [pc |-> "returned", err |-> "invalid tool name", started |-> FALSE]
        ELSE IF c.before \notin servers
        THEN [pc |-> "returned", err |-> "invalid server name", started |-> FALSE]
        ELSE IF ~isMCPEnabled(disable, c.before)
        THEN [pc |-> "returned", err |-> "server disabled", started |-> FALSE]
        ELSE [pc |-> "init", err |-> "nil", started |-> TRUE,
              server |-> c.before, tool |-> c.after]

\* The names a model may call: the wire name of every tool of every
\* configured server, a name without underscore, one of an unknown server.
CallNames ==
    UNION {{[name |-> WireName(n, ToolsOf(n)[i]), s |-> n, tool |-> ToolsOf(n)[i]] :
                i \in 1..Len(ToolsOf(n))} : n \in MCPServerNames}

BadNames == {<<"a">>, <<"z", "_", "a">>}

ToolCallStart ==
    /\ mcps.op = "idle"
    /\ \/ \E c \in CallNames :
             mcps' = [mcps EXCEPT
                         !.op = "toolCall",
                         !.call = toolCallStart(mcps.servers, mcps.disable, c.name)
                                      @@ [name |-> c.name, from |-> <<c.s, c.tool>>]]
       \/ \E b \in BadNames :
             mcps' = [mcps EXCEPT
                         !.op = "toolCall",
                         !.call = toolCallStart(mcps.servers, mcps.disable, b)
                                      @@ [name |-> b, from |-> << >>]]
    /\ UNCHANGED <<storeVars, streamVars, sessionVars, temp, ctxs, unit, worker>>

\* The context of the client call the tool call is blocked in:
\* initMcpClient(ctx, server), then client.CallTool(context.Background(), ...).
BackgroundCtx == "context.Background()"
CallCtx == "ctx"

ctxOfCall(pc) == IF pc = "init" THEN CallCtx ELSE BackgroundCtx

Blocked(call) == call.pc \in {"init", "calling"}

\* The server answers the client: Start and Initialize, then CallTool.
ToolCallAnswered ==
    /\ mcps.op = "toolCall"
    /\ Blocked(mcps.call)
    /\ mcps.behaves[mcps.call.server] # "hang"
    /\ mcps' = IF mcps.behaves[mcps.call.server] = "fail"
               THEN [mcps EXCEPT !.call.pc = "returned", !.call.err = "mcp"]
               ELSE IF mcps.call.pc = "init"
               THEN [mcps EXCEPT !.call.pc = "calling"]
               ELSE [mcps EXCEPT !.call.pc = "returned"]
    /\ UNCHANGED <<storeVars, streamVars, sessionVars, temp, ctxs, unit, worker>>

\* A server that hangs has accepted the client and hangs in the call.
ToolCallAccepted ==
    /\ mcps.op = "toolCall"
    /\ mcps.call.pc = "init"
    /\ mcps.behaves[mcps.call.server] = "hang"
    /\ mcps' = [mcps EXCEPT !.call.pc = "calling"]
    /\ UNCHANGED <<storeVars, streamVars, sessionVars, temp, ctxs, unit, worker>>

\* The client call returns the error of its context, which is done.
ToolCallAborted ==
    /\ mcps.op = "toolCall"
    /\ Blocked(mcps.call)
    /\ ctxOfCall(mcps.call.pc) = CallCtx /\ mcps.ctxDone
    /\ mcps' = [mcps EXCEPT !.call.pc = "returned", !.call.err = "mcp: context"]
    /\ UNCHANGED <<storeVars, streamVars, sessionVars, temp, ctxs, unit, worker>>

McpNext ==
    \/ McpToolsGo
    \/ \E n \in MCPServerNames : TaskListed(n)
    \/ \E n \in MCPServerNames : TaskStore(n)
    \/ McpToolsWait
    \/ CtxExpires
    \/ ToolCallStart
    \/ ToolCallAnswered
    \/ ToolCallAccepted
    \/ ToolCallAborted

(***************************************************************************)
(* Functions of the program called alone, on arguments drawn from small    *)
(* sets: unit holds the arguments and, once the function has returned,     *)
(* what it returned.                                                       *)
(***************************************************************************)
NoRes == [t |-> "none"]

\* The environment: the variable named by api-key-env and the well-known
\* variable of the provider; os.Getenv of a variable that is not set is "".
KeyEnvName == <<"E">>
DefaultEnvName == <<"D">>

\* exec.Command(...).CombinedOutput(): the command fails, or prints.
CmdFails == [failed |-> TRUE, out |-> << >>]
CmdPrints(out) == [failed |-> FALSE, out |-> out]

\* Mods.ensureKey: the key, or the error.
ensureKey(api, getenv, run, defaultEnv) ==
    LET key0 == api.APIKey
        key1 == IF key0 = << >> /\ api.APIKeyEnv # << >> /\ api.APIKeyCmd = << >>
                THEN getenv[api.APIKeyEnv] ELSE key0
        last(k) == LET key3 == IF k = << >> THEN getenv[defaultEnv] ELSE k
                   IN  IF key3 # << >> THEN [t |-> "key", key |-> key3]
                       ELSE [t |-> "err", reason |-> "key required"]
    IN  IF key1 = << >> /\ api.APIKeyCmd # << >>
        THEN IF run.failed THEN [t |-> "err", reason |-> "api-key-cmd"]
             ELSE last(TrimSpace(run.out))
        ELSE last(key1)

KeyCalls ==
    {[fn |-> "ensureKey",
      api |-> [APIKey |-> k, APIKeyCmd |-> c, APIKeyEnv |-> e],
      getenv |-> (KeyEnvName :> ev @@ DefaultEnvName :> dv),
      run |-> r, res |-> NoRes] :
        k \in {<< >>, <<"k">>}, c \in {<< >>, <<"c", "m", "d">>},
        e \in {<< >>, KeyEnvName},
        ev \in {<< >>, <<"e">>}, dv \in {<< >>, <<"d">>},
        r \in {CmdFails, CmdPrints(<< >>), CmdPrints(<<"o", "\n">>)}}

\* Threads of the format from before the tool calls.
OldBlobs ==
    {<< >>,
     <<noCallMessage(RoleUser, <<"q">>), noCallMessage(RoleAssistant, <<"r">>)>>,
     <<noCallMessage(RoleSystem, <<"S">>), noCallMessage(RoleUser, <<"q">>),
       noCallMessage(RoleAssistant, << >>)>>}

DecodeCalls ==
    {[fn |-> "decode", blob |-> b, dest |-> d, res |-> NoRes] :
        b \in OldBlobs, d \in ReadInto}

\* decode, on a blob of the old format.
DecodeOld ==
    /\ unit.fn = "decode"
    /\ unit.res = NoRes
    /\ unit' = [unit EXCEPT
                   !.res = [t |-> "nil",
                            messages |-> decodeNoCalls(unit.blob, unit.dest)]]
    /\ UNCHANGED <<storeVars, streamVars, sessionVars, temp, ctxs, mcps, worker>>

\* Message lists of up to three messages, prompts and answers, some empty.
PromptMsgs ==
    {Msg(r, c, << >>) : r \in {RoleUser, RoleAssistant}, c \in {<< >>, <<"a">>, <<"b">>}}

PromptLists ==
    {<< >>} \cup {<<a>> : a \in PromptMsgs}
        \cup {<<a, b>> : a \in PromptMsgs, b \in PromptMsgs}
        \cup {<<a, b, c>> : a \in PromptMsgs, b \in PromptMsgs, c \in PromptMsgs}

LastPromptCalls == {[fn |-> "lastPrompt", messages |-> l, res |-> NoRes] : l \in PromptLists}

LastPrompt ==
    /\ unit.fn = "lastPrompt"
    /\ unit.res = NoRes
    /\ unit' = [unit EXCEPT !.res = [t |-> "nil", text |-> lastPrompt(unit.messages)]]
    /\ UNCHANGED <<storeVars, streamVars, sessionVars, temp, ctxs, mcps, worker>>

EnsureKey ==
    /\ unit.fn = "ensureKey"
    /\ unit.res = NoRes
    /\ unit' = [unit EXCEPT
                   !.res = ensureKey(unit.api, unit.getenv, unit.run, DefaultEnvName)]
    /\ UNCHANGED <<storeVars, streamVars, sessionVars, temp, ctxs, mcps, worker>>

(***************************************************************************)
(* Messages and commands of the Bubble Tea program.                        *)
(***************************************************************************)
Cmd(name) == [t |-> "cmd", name |-> name]
StartCmd(content) == [t |-> "cmd", name |-> "startCompletion", content |-> content]
ReceiveCmd(mod) == [t |-> "cmd", name |-> "receive", mod |-> mod]

ErrMsg(e, reason) == [t |-> "msg", name |-> "modsError", err |-> e, reason |-> reason]
InputMsg(content) == [t |-> "msg", name |-> "completionInput", content |-> content]
OutputMsg(content, hasStream, mod) ==
    [t |-> "msg", name |-> "completionOutput", content |-> content,
     stream |-> hasStream, mod |-> mod]

NoHandled == [t |-> "none"]

\* Mods.retry
retry(ms, cfg, content, err, reason) ==
    LET r == ms.retries + 1
    IN  [mods |-> [ms EXCEPT !.retries = r],
         config |-> cfg,
         msg |-> IF r >= cfg.MaxRetries THEN ErrMsg(err, reason) ELSE InputMsg(content)]

Fatal(ms, cfg, err, reason) == [mods |-> ms, config |-> cfg, msg |-> ErrMsg(err, reason)]

\* handleAPIError that retries a server error of every API.
handleAPIErrorRetry500(ms, cfg, err, mod, content) ==
    IF err.status = 404
    THEN IF mod.Fallback # ""
         THEN retry(ms, [cfg EXCEPT !.Model = mod.Fallback], content, err, "server error")
         ELSE Fatal(ms, cfg, err, "missing model")
    ELSE IF err.status = 400
    THEN IF err.code = "context_length_exceeded"
         THEN IF cfg.NoLimit THEN Fatal(ms, cfg, err, "maximum prompt size exceeded")
              ELSE retry(ms, cfg, cutPrompt(err.tok, content), err,
                         "maximum prompt size exceeded")
         ELSE Fatal(ms, cfg, err, "bad request")
    ELSE IF err.status = 401 THEN Fatal(ms, cfg, err, "invalid key")
    ELSE retry(ms, cfg, content, err, "server error")

\* Mods.handleAPIError
handleAPIError(ms, cfg, err, mod, content) ==
    IF err.status = 404
    THEN IF mod.Fallback # ""
         THEN retry(ms, [cfg EXCEPT !.Model = mod.Fallback], content, err, "server error")
         ELSE Fatal(ms, cfg, err, "missing model")
    ELSE IF err.status = 400
    THEN IF err.code = "context_length_exceeded"
         THEN IF cfg.NoLimit THEN Fatal(ms, cfg, err, "maximum prompt size exceeded")
              ELSE retry(ms, cfg, cutPrompt(err.tok, content), err,
                         "maximum prompt size exceeded")
         ELSE Fatal(ms, cfg, err, "bad request")
    ELSE IF err.status = 401 THEN Fatal(ms, cfg, err, "invalid key")
    ELSE IF err.status = 429 THEN retry(ms, cfg, content, err, "rate limit")
    ELSE IF err.status = 500
    THEN IF mod.API = "openai" THEN retry(ms, cfg, content, err, "server error")
         ELSE Fatal(ms, cfg, err, "error loading model")
    ELSE retry(ms, cfg, content, err, "unknown API error")

\* Mods.handleRequestError: only an *openai.Error goes through the policy.
handleRequestError(ms, cfg, err, mod, content) ==
    IF err.t = "api" THEN handleAPIError(ms, cfg, err, mod, content)
    ELSE Fatal(ms, cfg, err, "request problem")

\* What the history keeps of one call of the error handler.
Handled(ms, cfg, err, mod, h, n) ==
    [t |-> err.t, err |-> err, mod |-> mod, noLimit |-> cfg.NoLimit,
     maxRetries |-> cfg.MaxRetries, before |-> ms.retries,
     after |-> h.mods.retries, out |-> h.msg.name, input |-> ms.Input,
     content |-> IF h.msg.name = "completionInput" THEN h.msg.content ELSE << >>,
     model |-> h.config.Model, nsent |-> n]

(***************************************************************************)
(* The session: one run of the program.  A Bubble Tea command runs and     *)
(* returns a message; Update handles the message and returns the next      *)
(* command.  pend holds the one or the other.                              *)
(***************************************************************************)
NoMod == [Name |-> "", API |-> "", Fallback |-> "", MaxChars |-> 0]

NewMods == [state |-> "start", retries |-> 0, Input |-> << >>, Output |-> << >>,
            Error |-> NoErr, messages |-> << >>]

\* save: how saveConversation returned (none: it was not called)
\* current: the error of Current() in the last run of the receive command
\* (NoCall: Next() returned false, Current was not called)
NoCall == [t |-> "none"]

NoLog == [handled |-> NoHandled, errors |-> 0, tools |-> FALSE,
          completed |-> FALSE, keyQuit |-> FALSE, exit |-> "none", save |-> "none",
          current |-> NoCall]

SessionIdle ==
    /\ config = [API |-> ""]
    /\ mods = NewMods
    /\ pend = Cmd("none")
    /\ phase = "idle"
    /\ log = NoLog

\* newConversationID: a random id, one no conversation has.
newConversationID(d) == {i \in {ID1, ID3} : \A r \in d : r.id # i}

\* Mods.findReadID
findReadID(d, in, cfg) ==
    LET f == Find(d, in)
    IN  IF f.err = "nil" THEN f
        ELSE IF f.err = "errNoMatches" /\ cfg.Show = << >> THEN FindHEAD(d)
        ELSE f

\* Mods.findCacheOpsDetails
FindCacheOpsDetails ==
    /\ phase = "running"
    /\ pend = Cmd("findCacheOpsDetails")
    /\ LET continueLast == config.ContinueLast
                               \/ (config.Continue # << >> /\ config.Title = << >>)
           readID0 == IF config.Continue # << >> THEN config.Continue ELSE config.Show
           writeID0 == IF config.Title # << >> THEN config.Title ELSE config.Continue
           lookup == readID0 # << >> \/ continueLast \/ config.ShowLast
           found == findReadID(db, readID0, config)
       IN  IF lookup /\ found.err # "nil"
           THEN pend' = ErrMsg([t |-> "mods"], "could not find the conversation")
           ELSE \E fresh \in newConversationID(db) :
                    LET readID == IF lookup THEN found.row.id ELSE readID0
                        writeID1 == IF continueLast THEN readID ELSE writeID0
                        writeID2 == IF writeID1 = << >> THEN fresh ELSE writeID1
                        convo == Find(db, writeID2)
                        writeID == IF sha1reg(writeID2) THEN writeID2
                                   ELSE IF convo.err # "nil" THEN fresh
                                   ELSE convo.row.id
                    IN  pend' = [t |-> "msg", name |-> "cacheDetailsMsg",
                                 WriteID |-> writeID, Title |-> writeID0,
                                 ReadID |-> readID,
                                 API |-> IF lookup THEN found.row.api ELSE config.API,
                                 Model |-> IF lookup THEN found.row.model ELSE config.Model]
    /\ UNCHANGED <<config, mods, phase, log, storeVars, streamVars, auxVars>>

\* Update, case cacheDetailsMsg
UpdateCacheDetails ==
    /\ phase = "running"
    /\ pend.t = "msg" /\ pend.name = "cacheDetailsMsg"
    /\ config' = [config EXCEPT !.cacheWriteToID = pend.WriteID,
                                !.cacheWriteToTitle = pend.Title,
                                !.cacheReadFromID = pend.ReadID,
                                !.API = pend.API,
                                !.Model = pend.Model]
    /\ mods' = [mods EXCEPT !.state = "configLoaded"]
    /\ pend' = Cmd("readStdin")
    /\ UNCHANGED <<phase, log, storeVars, streamVars, auxVars>>

\* Mods.readStdinCmd
ReadStdinCmd ==
    /\ phase = "running"
    /\ pend = Cmd("readStdin")
    /\ pend' = InputMsg(IF config.tty THEN << >> ELSE increaseIndent(config.stdin))
    /\ UNCHANGED <<config, mods, phase, log, storeVars, streamVars, auxVars>>

\* strings.Join(parts[0:n], "\n") of the parts of strings.Split(s, "\n"),
\* for n >= 1: s up to its n-th line break.
RECURSIVE firstLines(_, _)
firstLines(s, n) ==
    IF s = << >> THEN << >>
    ELSE IF Head(s) = "\n"
         THEN IF n = 1 THEN << >> ELSE <<"\n">> \o firstLines(Tail(s), n - 1)
    ELSE <<Head(s)>> \o firstLines(Tail(s), n)

\* What Update, case completionInput, appends to the output: the prefix
\* under --prompt-args, the first lines of the input under --prompt n.
promptPreamble(cfg, input) ==
    (IF cfg.IncludePromptArgs THEN cfg.Prefix \o <<"\n", "\n">> ELSE << >>)
    \o (IF cfg.IncludePrompt > 0
        THEN firstLines(input, cfg.IncludePrompt) \o <<"\n">> ELSE << >>)

\* Update, case completionInput
UpdateCompletionInput ==
    /\ phase = "running"
    /\ pend.t = "msg" /\ pend.name = "completionInput"
    /\ LET input == IF pend.content # << >> THEN removeWhitespace(pend.content)
                    ELSE mods.Input
       IN  IF input = << >> /\ config.Prefix = << >> /\ config.Show = << >>
              /\ ~config.ShowLast
           THEN /\ mods' = [mods EXCEPT !.Input = input]
                /\ pend' = Cmd("quit")
           ELSE /\ mods' = [mods EXCEPT !.Input = input, !.state = "request",
                                        !.Output = @ \o promptPreamble(config, input)]
                /\ pend' = StartCmd(pend.content)
    /\ UNCHANGED <<config, phase, log, storeVars, streamVars, auxVars>>

\* A panic in a command ends the program abnormally.
Crashed(s, p, sn, h, cx) ==
    /\ ctxs' = cx
    /\ phase' = "crashed"
    /\ pend' = Cmd("none")
    /\ strm' = s
    /\ prov' = p
    /\ sent' = sn
    /\ hist' = h
    /\ UNCHANGED <<config, mods, log>>

\* An error of Current() on which the loop would stop at every error.
endsStreamAlways(err) == err # NoErr

\* receiveCompletionStreamCmd: err != nil && !errors.Is(err, stream.ErrNoContent)
endsStream(err) == err \notin {NoErr, NoContent}

\* Contexts.  MCtx is m.ctx, the context of the command line, which the
\* program never cancels.  startCompletionCmd derives one context with the
\* MCP timeout for the tool enumeration, and the ToolCaller closure one for
\* every tool call; the cancel function of each is appended to
\* m.cancelRequest.  request is the context handed to Client.Request.
MCtx == "m.ctx"
ToolsCtx == "tools"
ToolCallCtx == "toolCall"

Registered(cx, name) == [cx EXCEPT !.cancelRequest = Append(@, name)]

RECURSIVE RegisteredCalls(_, _)
RegisteredCalls(cx, n) ==
    IF n = 0 THEN cx ELSE RegisteredCalls(Registered(cx, ToolCallCtx), n - 1)

Requesting(cx, name) == [cx EXCEPT !.request = name]

\* A context is done when its cancel function was called; no context that
\* MCtx derives from is ever cancelled, and timeouts are not counted here.
CtxDone(cx, name) == name \in cx.cancelled

\* Mods.receiveCompletionStreamCmd on stream s facing provider p; ms, cfg
\* and cx are the model, the configuration and the contexts as the command
\* finds them.
ReceiveOn(ms, cfg, s, p, sn, mod, cx) ==
    \E o \in StreamNext(s, p) :
        LET sent1 == IF o.sent = << >> THEN sn
                     ELSE Append(sn, Sent(mod.Name, o.sent[1]))
            h1 == NextHist(hist, s, p, o)
            errh(e, s1, p1, cur) ==
                LET h == handleRequestError(ms, cfg, e, mod, ms.Input)
                IN  /\ mods' = h.mods
                    /\ config' = h.config
                    /\ pend' = h.msg
                    /\ ctxs' = cx
                    /\ strm' = s1
                    /\ prov' = p1
                    /\ sent' = sent1
                    /\ hist' = h1
                    /\ log' = [log EXCEPT !.handled = Handled(ms, cfg, e, mod, h, Len(sent1)),
                                          !.errors = @ + 1,
                                          !.current = cur]
                    /\ phase' = phase
            goOn(s1, p1, h, m1, msg, cur) ==
                /\ ctxs' = RegisteredCalls(cx, Len(h.statuses))
                /\ mods' = m1
                /\ config' = cfg
                /\ pend' = msg
                /\ strm' = s1
                /\ prov' = p1
                /\ sent' = sent1
                /\ hist' = h
                /\ log' = [log EXCEPT !.tools = @ \/ s1.message.calls # << >>
                                                  \/ h.statuses # << >>,
                                      !.current = cur]
                /\ phase' = phase
        IN  IF o.ret
            THEN \E c \in StreamCurrent(o.s, o.p) :
                    IF c.err = Panic THEN Crashed(c.s, c.p, sent1, h1, cx)
                    ELSE IF endsStream(c.err)
                    THEN errh(c.err, StreamClose(c.s), c.p, c.err)
                    ELSE goOn(c.s, c.p, h1, ms, OutputMsg(c.content, TRUE, mod), c.err)
            ELSE IF StreamErr(o.s) # NoErr THEN errh(StreamErr(o.s), o.s, o.p, NoCall)
            ELSE \E tl \in StreamCallTools(o.s) :
                    IF tl.panic \/ (tl.statuses = << >> /\ StreamMessages(tl.s) = Panic)
                    THEN Crashed(tl.s, o.p, sent1, ToolsHist(h1, o.s, tl), cx)
                    ELSE IF tl.statuses = << >>
                    THEN goOn(tl.s, o.p, ToolsHist(h1, o.s, tl),
                              [ms EXCEPT !.messages = StreamMessages(tl.s)],
                              OutputMsg(<< >>, FALSE, mod), NoCall)
                    ELSE goOn(tl.s, o.p, ToolsHist(h1, o.s, tl), ms,
                              OutputMsg([k \in 1..Len(tl.statuses) |-> "T"], TRUE, mod),
                              NoCall)

\* cfg.Roles: the setup of the one role the settings define.
RoleName == <<"r">>
Roles == [r \in {RoleName} |-> SystemMsgs(2)]

\* Mods.setupStreamContext: the thread of the request, or an error.
\* --format is off.  The cache is read into the system messages gathered
\* so far.
setupStreamContext(cfg, b, content, mod) ==
    LET sys == IF cfg.Role # << >> /\ cfg.Role \in DOMAIN Roles
               THEN Roles[cfg.Role] ELSE << >>
        c1 == IF cfg.Prefix # << >>
              THEN TrimSpace(cfg.Prefix \o <<"\n", "\n">> \o content) ELSE content
        c2 == IF ~cfg.NoLimit /\ Len(c1) > mod.MaxChars
              THEN SubSeq(c1, 1, mod.MaxChars) ELSE c1
        read == cacheRead(b, cfg.cacheReadFromID, sys)
    IN  IF cfg.Role # << >> /\ cfg.Role \notin DOMAIN Roles THEN [err |-> TRUE]
        ELSE IF ~cfg.NoCache /\ cfg.cacheReadFromID # << >>
        THEN IF read.err THEN [err |-> TRUE]
             ELSE [err |-> FALSE,
                   messages |-> Append(read.messages, Msg(RoleUser, c2, << >>))]
        ELSE [err |-> FALSE, messages |-> Append(sys, Msg(RoleUser, c2, << >>))]

\* Mods.readFromCache (--show, --show-last)
ReadFromCache ==
    LET read == cacheRead(blobs, config.cacheReadFromID, << >>)
    IN  /\ IF read.err
           THEN /\ pend' = ErrMsg([t |-> "mods"], "error loading the conversation")
                /\ mods' = mods
           ELSE /\ pend' = OutputMsg(<< >>, FALSE, NoMod)
                /\ mods' = [mods EXCEPT !.Output = @ \o <<"C">>]
        /\ UNCHANGED <<config, phase, log, streamVars, ctxs>>

\* Mods.startCompletionCmd: resolve the model, build the thread, open the
\* provider request and take the first step of the receive loop.
\* cohere.Client.Request translates the thread with fromProtoMessages, which
\* reads the User text of a message it built with the Chatbot field only.
StartCompletionCmd ==
    /\ phase = "running"
    /\ pend.t = "cmd" /\ pend.name = "startCompletion"
    /\ IF config.Show # << >> \/ config.ShowLast THEN ReadFromCache
       ELSE LET r == resolveModel(config)
                cfg == [config EXCEPT !.API = IF r.err = NoErr THEN r.mod.API ELSE ""]
                ctx == setupStreamContext(cfg, blobs, pend.content, r.mod)
                ms == [mods EXCEPT !.messages = IF ctx.err THEN << >> ELSE ctx.messages]
                kind == KindOf(r.mod.API)
                cx == Registered(ctxs, ToolsCtx)
            IN  IF r.err # NoErr
                THEN /\ pend' = ErrMsg(r.err, "model not in settings")
                     /\ config' = cfg
                     /\ UNCHANGED <<mods, phase, log, streamVars, ctxs>>
                ELSE IF ctx.err
                THEN /\ pend' = ErrMsg([t |-> "mods"], "problem reading the cache")
                     /\ config' = cfg
                     /\ mods' = ms
                     /\ ctxs' = cx
                     /\ UNCHANGED <<phase, log, streamVars>>
                ELSE IF kind = "cohere"
                THEN /\ phase' = "crashed"
                     /\ pend' = Cmd("none")
                     /\ config' = cfg
                     /\ mods' = ms
                     /\ ctxs' = Requesting(cx, MCtx)
                     /\ UNCHANGED <<log, streamVars>>
                ELSE \E e \in RequestErrors(kind) :
                        ReceiveOn(ms, cfg, InitStream(kind, ctx.messages, e),
                                  Requested(e, cfg.mcp),
                                  Append(sent, Sent(r.mod.Name, ctx.messages)), r.mod,
                                  Requesting(cx, MCtx))
    /\ UNCHANGED <<hpc, storeVars, temp, mcps, unit, worker>>

\* Mods.receiveCompletionStreamCmd, as the command Update returned.
ReceiveCompletionStreamCmd ==
    /\ phase = "running"
    /\ pend.t = "cmd" /\ pend.name = "receive"
    /\ ReceiveOn(mods, config, strm, prov, sent, pend.mod, ctxs)
    /\ UNCHANGED <<hpc, storeVars, temp, mcps, unit, worker>>

\* Update, case completionOutput
UpdateCompletionOutput ==
    /\ phase = "running"
    /\ pend.t = "msg" /\ pend.name = "completionOutput"
    /\ IF ~pend.stream
       THEN /\ mods' = [mods EXCEPT !.state = "done"]
            /\ pend' = Cmd("quit")
            /\ log' = [log EXCEPT !.completed = TRUE]
       ELSE /\ mods' = [mods EXCEPT
                            !.Output = @ \o pend.content,
                            !.state = IF pend.content # << >> THEN "response" ELSE @]
            /\ pend' = ReceiveCmd(pend.mod)
            /\ log' = log
    /\ UNCHANGED <<config, phase, storeVars, streamVars, auxVars>>

\* Update, case modsError
UpdateModsError ==
    /\ phase = "running"
    /\ pend.t = "msg" /\ pend.name = "modsError"
    /\ mods' = [mods EXCEPT !.Error = pend.err, !.state = "error"]
    /\ pend' = Cmd("quit")
    /\ UNCHANGED <<config, phase, log, storeVars, streamVars, auxVars>>

\* Update, case tea.KeyMsg "q" / "ctrl+c": the message of the command in
\* flight is not waited for.
KeyQuit ==
    /\ phase = "running"
    /\ config.interactive
    /\ pend # Cmd("quit")
    /\ mods' = [mods EXCEPT !.state = "done"]
    /\ pend' = Cmd("quit")
    /\ log' = [log EXCEPT !.keyQuit = TRUE]
    /\ UNCHANGED <<config, phase, storeVars, streamVars, auxVars>>

\* Mods.quit: every cancel function Mods keeps is called and the program
\* returns to RunE.
QuitCmd ==
    /\ phase = "running"
    /\ pend = Cmd("quit")
    /\ phase' = "finished"
    /\ pend' = Cmd("none")
    /\ ctxs' = [ctxs EXCEPT !.cancelled =
                    @ \cup {ctxs.cancelRequest[i] : i \in 1..Len(ctxs.cancelRequest)}]
    /\ UNCHANGED <<config, mods, log, storeVars, streamVars, temp, mcps, unit, worker>>

isNoArgs(cfg) == cfg.Prefix = << >> /\ cfg.Show = << >> /\ ~cfg.ShowLast

\* saveConversation: the blob is written, then the index row; a failed
\* Save removes the blob.
saveConversation ==
    IF config.NoCache
    THEN /\ log' = [log EXCEPT !.exit = "nil", !.save = "no-cache"]
         /\ UNCHANGED <<db, blobs, saved>>
    ELSE LET id == config.cacheWriteToID
             t0 == TrimSpace(config.cacheWriteToTitle)
             title == IF sha1reg(t0) \/ t0 = << >>
                      THEN firstLine(lastPrompt(mods.messages)) ELSE t0
         IN  IF SaveErr(db, id, title)
             THEN /\ blobs' = cacheDelete(cacheWrite(blobs, id, mods.messages), id)
                  /\ db' = db
                  /\ saved' = Unwrote(saved, id)
                  /\ log' = [log EXCEPT !.exit = "error", !.save = "error"]
             ELSE /\ blobs' = cacheWrite(blobs, id, mods.messages)
                  /\ db' = SaveRows(db, id, title, config.API, config.Model, clock)
                  /\ saved' = Saved(Wrote(saved, id, mods.messages), db, id, title,
                                    config.API, config.Model, clock)
                  /\ log' = [log EXCEPT !.exit = "nil", !.save = "nil"]

\* RunE, after the program has returned.
RunE ==
    /\ phase = "finished"
    /\ phase' = "exited"
    /\ IF mods.Error # NoErr \/ (mods.Input = << >> /\ isNoArgs(config))
       THEN /\ log' = [log EXCEPT !.exit = "error"]
            /\ UNCHANGED <<db, blobs, saved>>
       ELSE IF config.Show # << >> \/ config.ShowLast \/ config.cacheWriteToID = << >>
       THEN /\ log' = [log EXCEPT !.exit = "nil"]
            /\ UNCHANGED <<db, blobs, saved>>
       ELSE saveConversation
    /\ UNCHANGED <<config, mods, pend, clock, dbOp, streamVars, auxVars>>

(***************************************************************************)
(* The runs drawn: the command line and the settings, the piped prompt,    *)
(* and the conversations saved by earlier runs.                            *)
(***************************************************************************)
Prompts == {<< >>, Rep("x", MaxPromptLen - 2), Rep("x", MaxPromptLen - 1)}

OldThread == <<Msg(RoleUser, <<"o", "l", "d">>, << >>),
               Msg(RoleAssistant, <<"r">>, << >>)>>

\* What a run leaves in the cache when q was pressed after its request had
\* started: the prompt, without an answer.
CancelledThread == <<Msg(RoleUser, <<"o", "l", "d">>, << >>)>>

\* What --continue and --show are given: the title of the earlier
\* conversation, the start of its id, and a title no conversation has.
LookupInputs == {TitleMsg1, SubSeq(ID2, 1, sha1minLen), TitleMsg}

OldRow == [id |-> ID2, title |-> TitleMsg1, api |-> "openai", model |-> "m",
           updated_at |-> InsertStamp(0)]

\* mcp: the settings list MCP servers, so requests offer tools.
\* interactive: a user is at the keyboard and may press q.
Configs ==
    {[API |-> api, Model |-> "m", MaxRetries |-> n, NoLimit |-> nl, NoCache |-> nc,
      fallback |-> fb, Prefix |-> px, Title |-> ti, Continue |-> << >>,
      ContinueLast |-> cl, Show |-> << >>, ShowLast |-> FALSE, tty |-> tty,
      stdin |-> pr, mcp |-> mcp, interactive |-> ia, Role |-> ro,
      IncludePromptArgs |-> FALSE, IncludePrompt |-> 0,
      cacheWriteToID |-> << >>,
      cacheWriteToTitle |-> << >>, cacheReadFromID |-> << >>] :
        api \in APINames, n \in 0..MaxRetriesCfg, nl \in BOOLEAN, nc \in BOOLEAN,
        fb \in BOOLEAN, px \in {<< >>, <<"p">>}, ti \in {<< >>, TitleMsg},
        cl \in BOOLEAN, tty \in BOOLEAN, pr \in Prompts, mcp \in BOOLEAN,
        ia \in BOOLEAN, ro \in {<< >>, RoleName}}

NoLookup(c) == c.Continue = << >> /\ c.Show = << >> /\ ~c.ShowLast

\* Runs that exercise the error policy: an OpenAI client, every retry
\* budget, every prompt.
PolicyRun(c) ==
    /\ c.API \in OpenAIFamily /\ ~c.NoCache /\ c.Prefix = << >> /\ c.Title = << >>
    /\ ~c.ContinueLast /\ ~c.tty /\ ~c.mcp /\ ~c.interactive /\ c.Role = << >>

\* Runs that exercise the cache: every client, one prompt, no retry budget.
\* Runs that offer tools start a new conversation with a derived title, one
\* run per client that supports tools.
CachingRun(c) ==
    /\ c.MaxRetries = 0 /\ ~c.NoLimit /\ ~c.fallback
    /\ c.stdin = Rep("x", MaxPromptLen - 2)
    /\ c.tty => (c.Prefix # << >> /\ ~c.mcp /\ ~c.interactive)
    /\ c.mcp => (c.Prefix = << >> /\ ~c.interactive /\ ~c.NoCache
                 /\ c.Title = << >> /\ ~c.ContinueLast /\ c.API # "groq")
    /\ c.Role # << >> => (c.API = "openai" /\ c.Prefix = << >> /\ ~c.NoCache
                          /\ ~c.tty /\ ~c.mcp)

\* Runs that name a conversation: one of --continue X, --show X and
\* --show-last, with or without --title, and a prompt.
PlainRun(c) ==
    /\ c.API = "openai" /\ c.MaxRetries = 0 /\ ~c.NoLimit /\ ~c.fallback
    /\ ~c.NoCache /\ c.Prefix = << >> /\ ~c.ContinueLast /\ ~c.tty /\ ~c.mcp
    /\ ~c.interactive /\ c.stdin = Rep("x", MaxPromptLen - 2) /\ c.Role = << >>

LookupRuns ==
    {[c EXCEPT !.Continue = co] :
        c \in {p \in Configs : PlainRun(p)}, co \in LookupInputs}
    \cup {[c EXCEPT !.Show = sh] :
        c \in {p \in Configs : PlainRun(p) /\ p.Title = << >>}, sh \in LookupInputs}
    \cup {[c EXCEPT !.ShowLast = TRUE] :
        c \in {p \in Configs : PlainRun(p) /\ p.Title = << >>}}

\* Runs that echo the prompt: --prompt-args, --prompt n or both, with a
\* prefix on the command line and every retry budget.
PreambleRuns ==
    {[c EXCEPT !.Prefix = <<"p">>, !.IncludePromptArgs = a, !.IncludePrompt = n] :
        c \in {p \in Configs : /\ PolicyRun(p) /\ p.API = "openai" /\ ~p.NoLimit
                                /\ ~p.fallback /\ p.stdin = Rep("x", MaxPromptLen - 2)},
        a \in BOOLEAN, n \in {0, 1}} \ Configs

SessionInit ==
    /\ config \in {c \in Configs : PolicyRun(c) \/ CachingRun(c)} \cup LookupRuns
                       \cup PreambleRuns
    /\ mods = NewMods
    /\ pend = Cmd("findCacheOpsDetails")
    /\ phase = "running"
    /\ log = NoLog

\* Nothing, or one conversation of an earlier run: a completed one, or
\* for a run that continues the last conversation, a cancelled one.
StoreOfEarlierRuns ==
    /\ \E old \in {<< >>, OldThread, CancelledThread} :
        /\ old = OldThread => (config.ContinueLast \/ ~NoLookup(config))
        /\ old = CancelledThread =>
                (config.ContinueLast /\ ~config.interactive /\ config.Title = << >>)
        /\ db = IF old = << >> THEN {} ELSE {OldRow}
        /\ blobs = [i \in IDs |-> IF i = OldRow.id /\ old # << >>
                                  THEN encode(old) ELSE NoBlob]
        /\ saved = IF old = << >> THEN NoSaves
                   ELSE Saved(Wrote(NoSaves, OldRow.id, old), {}, OldRow.id,
                              OldRow.title, OldRow.api, OldRow.model, 0)
    /\ clock = 0
    /\ dbOp = NoOp

SessionNext ==
    \/ FindCacheOpsDetails
    \/ UpdateCacheDetails
    \/ ReadStdinCmd
    \/ UpdateCompletionInput
    \/ StartCompletionCmd
    \/ ReceiveCompletionStreamCmd
    \/ UpdateCompletionOutput
    \/ UpdateModsError
    \/ KeyQuit
    \/ QuitCmd
    \/ RunE

(***************************************************************************)
(* C1: with caching enabled, a session whose stream completed ends with an *)
(* index row and a blob under the write id, and the blob holds the thread  *)
(* of the last request followed by the assistant reply.                    *)
(***************************************************************************)
C1_CompletedSessionIsSaved ==
    (phase = "exited" /\ log.completed /\ ~config.NoCache /\ sent # << >>) =>
        LET id == config.cacheWriteToID
            req == sent[Len(sent)].messages
        IN  /\ \E r \in db : r.id = id
            /\ blobs[id] # NoBlob
            /\ Len(decode(blobs[id], << >>)) = Len(req) + 1
            /\ IsPrefix(req, decode(blobs[id], << >>))
            /\ decode(blobs[id], << >>)[Len(req) + 1].role = RoleAssistant

(***************************************************************************)
(* C2: in a session without provider error and without tool calls, a Next  *)
(* called when the response has ended returns false, and the session opens *)
(* no second provider request.                                             *)
(***************************************************************************)
CleanSession == log.errors = 0 /\ ~log.tools /\ strm.err = NoErr /\ phase # "idle"

C2_CleanTurnEndsTheLoop ==
    CleanSession => ((hist.atEnd => ~hist.ret) /\ Len(sent) <= 1)

(***************************************************************************)
(* C5: with MaxRetries = n the request is re-issued at most n times, and   *)
(* the error surfaced after retryable errors is the (n+1)-th of them.      *)
(***************************************************************************)
FatalByTable(h) ==
    \/ h.err.status = 404 /\ h.mod.Fallback = ""
    \/ h.err.status = 400 /\ h.err.code # "context_length_exceeded"
    \/ h.err.status = 400 /\ h.err.code = "context_length_exceeded" /\ h.noLimit
    \/ h.err.status = 401
    \/ h.err.status = 500 /\ h.mod.API # "openai"

C5_SurfacedErrorIsNPlusFirst ==
    LET h == log.handled
    IN  (h.t = "api" /\ ~FatalByTable(h)) =>
            /\ (h.out = "completionInput") => h.after <= h.maxRetries
            /\ (h.out = "modsError") => h.after = h.maxRetries + 1

C7_FallbackIsRetried ==
    LET h == log.handled
    IN  (h.t = "api" /\ h.err.status = 404 /\ h.mod.Fallback # ""
         /\ h.maxRetries >= 1 /\ h.before = 0) =>
            /\ h.model = h.mod.Fallback
            /\ h.out = "completionInput"
            /\ Len(sent) > h.nsent => sent[h.nsent + 1].model = h.mod.Fallback

(***************************************************************************)
(* C8: the prompt of a context-length retry whose error carries the counts *)
(* max and current is shorter than the old prompt by (current-max)*4 + 10, *)
(* and its length is not negative.                                         *)
(***************************************************************************)
ContextRetry(h) ==
    /\ h.t = "api"
    /\ h.err.status = 400
    /\ h.err.code = "context_length_exceeded"
    /\ h.err.tok # NoTok
    /\ h.out = "completionInput"

C8_RetryPromptIsCut ==
    LET h == log.handled
    IN  (ContextRetry(h) /\ h.err.tok[2] >= h.err.tok[1]) =>
            /\ Len(h.content) = Len(h.input) - ((h.err.tok[2] - h.err.tok[1]) * 4 + 10)
            /\ Len(h.content) >= 0

\* C8, amended: the prompt of the retry is the old prompt without its last
\* (current-max)*4 + 10 characters when current >= max and the old prompt
\* is longer than that; otherwise it is the old prompt, unchanged.
C8_RetryPromptIsCutWhenLongEnough ==
    LET h == log.handled
        reduceBy == (h.err.tok[2] - h.err.tok[1]) * 4 + 10
    IN  ContextRetry(h) =>
            IF h.err.tok[2] >= h.err.tok[1] /\ Len(h.input) > reduceBy
            THEN /\ Len(h.content) = Len(h.input) - reduceBy
                 /\ IsPrefix(h.content, h.input)
            ELSE h.content = h.input

C8_Witness ==
    /\ ContextRetry(log.handled)
    /\ Len(log.handled.content) < Len(log.handled.input)
    /\ Len(sent) > log.handled.nsent

(***************************************************************************)
(* C9: an error of the provider request that is no API error is retried    *)
(* under the retry rule: while the retry budget is not used up the request *)
(* is re-issued.                                                           *)
(***************************************************************************)
C9_TransportErrorIsRetried ==
    LET h == log.handled
    IN  (h.t = "other" /\ h.before + 1 < h.maxRetries) =>
            (h.out = "completionInput" /\ h.after = h.before + 1)

(***************************************************************************)
(* C10: Find(in) looks up by exact title when len(in) < 4 and by id prefix *)
(* or exact title otherwise; it answers NoMatches for no candidate,        *)
(* ManyMatches for several and the candidate row for exactly one.          *)
(***************************************************************************)
FindCandidates(d, in) ==
    IF Len(in) < sha1minLen
    THEN {r \in d : r.title = in}
    ELSE {r \in d : IsPrefix(in, r.id) \/ r.title = in}

C10_FindByPrefixOrTitle ==
    dbOp.op = "Find" =>
        LET c == FindCandidates(db, dbOp.in)
        IN  /\ Cardinality(c) = 0 => dbOp.res.err = "errNoMatches"
            /\ Cardinality(c) > 1 => dbOp.res.err = "errManyMatches"
            /\ Cardinality(c) = 1 =>
                   dbOp.res.err = "nil" /\ dbOp.res.row \in c

(***************************************************************************)
(* C3: on a stream whose completed turn held no tool call, every Next      *)
(* called after the first false returns false and opens no provider        *)
(* request; and a turn that did hold tool calls is followed, after         *)
(* CallTools, by a Next that opens the follow-up request.                  *)
(***************************************************************************)
C3_NextFalseIsTerminal ==
    /\ (hist.call = "Next" /\ hist.wasFinal) => (~hist.ret /\ ~hist.opened)
    /\ (hist.call = "Next" /\ hist.prev = "CallTools" /\ hist.statuses # << >>) => hist.opened

(***************************************************************************)
(* C4: CallTools after a turn of k tool calls returns k statuses in the    *)
(* order of the calls and extends Messages() and the request by the k tool *)
(* results, in order, after the assistant message of the turn; a request   *)
(* opened after a turn of k tool calls ends with that assistant message    *)
(* and its k tool results.                                                 *)
(***************************************************************************)
TailIsToolRound(msgs, calls) ==
    LET k == Len(calls)
        n == Len(msgs)
    IN  /\ n >= k + 1
        /\ msgs[n - k].role = RoleAssistant
        /\ msgs[n - k].calls = calls
        /\ \A i \in 1..k :
            /\ msgs[n - k + i].role = RoleTool
            /\ msgs[n - k + i].calls[1].id = calls[i].id
            /\ msgs[n - k + i].calls[1].name = calls[i].name

C4_ToolRoundInOrder ==
    /\ (hist.call = "CallTools" /\ hist.round # << >>) =>
            /\ Len(hist.statuses) = Len(hist.round)
            /\ \A i \in 1..Len(hist.round) : hist.statuses[i].name = hist.round[i].name
            /\ TailIsToolRound(StreamMessages(strm), hist.round)
            /\ TailIsToolRound(strm.request, hist.round)
    /\ (hist.call = "Next" /\ hist.opened /\ hist.round # << >>) =>
            TailIsToolRound(sent[Len(sent)].messages, hist.round)

(***************************************************************************)
(* Specifications.                                                         *)
(***************************************************************************)
(***************************************************************************)
(* C11: the index is a map from id to (title, api, model).  After every    *)
(* step of Save, Delete and List calls, every listing holds exactly one    *)
(* row for each id saved and not deleted since, with the title, API and    *)
(* model of its last successful Save, and no other row; a Save of an id    *)
(* that has a row adds no row; a Delete leaves every other row as it was.  *)
(***************************************************************************)
ListIsTheMap(d, g) ==
    \A l \in List(d) :
        /\ \A k \in 1..Len(l) : l[k].id \in IDs /\ g.map[l[k].id] # NoEntry
        /\ \A i \in IDs :
               g.map[i] # NoEntry =>
                   /\ Cardinality({k \in 1..Len(l) : l[k].id = i}) = 1
                   /\ \A k \in 1..Len(l) :
                          l[k].id = i =>
                              [title |-> l[k].title, api |-> l[k].api,
                               model |-> l[k].model] = g.map[i]

C11_Step ==
    /\ ListIsTheMap(db', saved')
    /\ (dbOp'.op = "Save" /\ (\E r \in db : r.id = dbOp'.id))
           => Cardinality(db') = Cardinality(db)
    /\ dbOp'.op = "Delete"
           => {r \in db' : r.id # dbOp'.id} = {r \in db : r.id # dbOp'.id}

C11_IndexIsAMap == [][C11_Step]_vars

(***************************************************************************)
(* C16: after successful Saves made at strictly increasing wall-clock      *)
(* times (a tick is a third of a second), every row FindHEAD may return is *)
(* the conversation whose Save happened last, inserted or updated.         *)
(***************************************************************************)
C16_HeadIsLastSaved ==
    (saved.spaced /\ saved.last # << >>)
        => /\ HeadRows(db) # {}
           /\ \A r \in HeadRows(db) : r.id = saved.last

(***************************************************************************)
(* C17: updated_at is monotonic per row.  A successful Save of an id that  *)
(* has a row, made later than the Save before it, leaves the row with an   *)
(* updated_at that, read as a time, is not before the one it had.          *)
(***************************************************************************)
\* The time a stored updated_at reads as, in ticks.
StampTime(st) == st.sec * TicksPerSec + (IF st.frac < 0 THEN 0 ELSE st.frac)

C17_Step ==
    (dbOp'.op = "Save" /\ ~dbOp'.err)
        => \A r \in db : \A q \in db' :
               (r.id = dbOp'.id /\ q.id = r.id /\ saved.at[r.id] < clock)
                   => StampTime(q.updated_at) >= StampTime(r.updated_at)

C17_UpdatedAtIsMonotonic == [][C17_Step]_vars

(***************************************************************************)
(* C12: after the delete command has deleted a conversation (row, then     *)
(* blob), Find with its id returns NoMatches and a cache Read of its id    *)
(* returns not-found.                                                      *)
(***************************************************************************)
C12_DeletedIsNotFound ==
    dbOp.op = "delete" =>
        \A k \in 1..Len(dbOp.done) :
            /\ Find(db, dbOp.done[k]).err = "errNoMatches"
            /\ cacheRead(blobs, dbOp.done[k], << >>).err

(***************************************************************************)
(* C12, amended: after the delete command has deleted a conversation, no   *)
(* row has its id and a cache Read of its id returns not-found; Find with  *)
(* its id returns NoMatches unless the title of another conversation is    *)
(* that id.                                                                *)
(***************************************************************************)
C12_DeletedIsGone ==
    dbOp.op = "delete" =>
        \A k \in 1..Len(dbOp.done) :
            /\ \A r \in db : r.id # dbOp.done[k]
            /\ cacheRead(blobs, dbOp.done[k], << >>).err
            /\ \/ Find(db, dbOp.done[k]).err = "errNoMatches"
               \/ \E r \in db : r.title = dbOp.done[k]

\* The delete command deleted two conversations that had a row and a blob.
C12_Witness ==
    /\ dbOp.op = "delete" /\ dbOp.err = "nil" /\ Len(dbOp.done) = 2
    /\ \A k \in 1..2 : /\ \E r \in dbOp.rows : r.id = dbOp.done[k]
                        /\ dbOp.files[dbOp.done[k]] # NoBlob

(***************************************************************************)
(* C15: the delete command is decided by the row delete; the blob delete   *)
(* is best-effort.  A delete command whose targets are all found does not  *)
(* fail, whether or not the blobs of the conversations exist, and deletes  *)
(* the row of every target.                                                *)
(***************************************************************************)
C15_BlobDeleteIsBestEffort ==
    (dbOp.op = "delete" /\ dbOp.err # "find") =>
        /\ dbOp.err = "nil"
        /\ Len(dbOp.done) = Len(dbOp.targets)

(***************************************************************************)
(* C20: a cache Read of an id returns the list that was written under the  *)
(* id last: the same messages in the same order, with the same role,       *)
(* content and tool calls.                                                 *)
(***************************************************************************)
C20_ReadReturnsWhatWasWritten ==
    (dbOp.op = "cache.Read" /\ dbOp.id \in IDs /\ saved.threads[dbOp.id] # NoEntry) =>
        /\ ~dbOp.res.err
        /\ dbOp.res.messages = saved.threads[dbOp.id].messages

(***************************************************************************)
(* C13: after saveConversation has returned, with or without an error of   *)
(* the index write, a blob exists under the write id if and only if an     *)
(* index row with that id exists.                                          *)
(***************************************************************************)
C13_StoresAgreeAfterSave ==
    (phase = "exited" /\ log.save \in {"nil", "error"}) =>
        (blobs[config.cacheWriteToID] # NoBlob
            <=> \E r \in db : r.id = config.cacheWriteToID)

(***************************************************************************)
(* C14: a session changes the index or the cache only when its stream      *)
(* completed and caching is enabled.                                       *)
(***************************************************************************)
C14_Step ==
    (db' # db \/ blobs' # blobs) => (log.completed /\ ~config.NoCache)

C14_OnlyCompletedSessionsWrite == [][C14_Step]_vars

(***************************************************************************)
(* C18: when --continue X or --show X names no conversation, resolving the *)
(* cache operations yields an error: the HEAD conversation becomes neither *)
(* the read target nor the write target.                                   *)
(***************************************************************************)
NamedInput == IF config.Continue # << >> THEN config.Continue ELSE config.Show

C18_Step ==
    (/\ pend = Cmd("findCacheOpsDetails")
     /\ pend' # pend
     /\ NamedInput # << >>
     /\ Find(db, NamedInput).err = "errNoMatches")
        => pend'.name = "modsError"

C18_NoMatchIsAnError == [][C18_Step]_vars

(***************************************************************************)
(* C19: every thread in the conversation cache begins with zero or more    *)
(* System messages and then alternates User and Assistant messages; a Tool *)
(* message comes only directly after the Assistant message whose tool call *)
(* it answers (after that message or after other answers to it).  A thread *)
(* may end anywhere in the alternation.                                    *)
(***************************************************************************)
Answers(tool, assistant) ==
    /\ tool.calls # << >>
    /\ \A k \in 1..Len(tool.calls) :
           \E j \in 1..Len(assistant.calls) : assistant.calls[j].id = tool.calls[k].id

ThreadShape(ms) ==
    \A i \in 1..Len(ms) :
        CASE ms[i].role = RoleSystem ->
                 \A j \in 1..(i - 1) : ms[j].role = RoleSystem
          [] ms[i].role = RoleUser ->
                 i = 1 \/ ms[i - 1].role \in {RoleSystem, RoleAssistant}
          [] ms[i].role = RoleAssistant ->
                 i > 1 /\ ms[i - 1].role \in {RoleUser, RoleTool}
          [] ms[i].role = RoleTool ->
                 \E a \in 1..(i - 1) :
                     /\ ms[a].role = RoleAssistant
                     /\ \A j \in (a + 1)..(i - 1) : ms[j].role = RoleTool
                     /\ Answers(ms[i], ms[a])
          [] OTHER -> FALSE

C19_PersistedThreadShape ==
    \A id \in IDs : blobs[id] # NoBlob => ThreadShape(decode(blobs[id], << >>))

(***************************************************************************)
(* C28: a Save with an empty id or an empty title returns an error and     *)
(* leaves the index as it was: no row is inserted and an existing row with *)
(* that id keeps its title, api, model and updated_at.                     *)
(***************************************************************************)
C28_Step ==
    (dbOp'.op = "Save" /\ (dbOp'.id = << >> \/ dbOp'.title = << >>))
        => (dbOp'.err /\ db' = db)

C28_EmptySaveChangesNothing == [][C28_Step]_vars

C28_Witness ==
    /\ dbOp.op = "Save" /\ dbOp.title = << >> /\ dbOp.err
    /\ \E r \in db : r.id = dbOp.id /\ r.title # << >>

(***************************************************************************)
(* C29: an operation of either cache with a blank id fails with InvalidID  *)
(* and the step creates, changes or removes no file.                       *)
(***************************************************************************)
CacheOps == {"cache.Read", "cache.Write", "cache.Delete",
             "expiring.Read", "expiring.Write", "expiring.Delete"}

C29_Step ==
    (dbOp'.op \in CacheOps /\ dbOp'.id = << >>)
        => (dbOp'.kind = ErrInvalidID /\ blobs' = blobs /\ temp' = temp)

C29_BlankIdIsInvalid == [][C29_Step]_vars

(***************************************************************************)
(* C30: in both caches a Read of a non-blank id that has no file fails     *)
(* with os.ErrNotExist.                                                    *)
(***************************************************************************)
C30_MissingIsNotExist ==
    (dbOp.op \in {"cache.Read", "expiring.Read"} /\ dbOp.id # << >> /\ ~dbOp.found)
        => dbOp.kind = ErrNotExist

(***************************************************************************)
(* C26: when Current() returns the NoContent sentinel the coordinator      *)
(* keeps polling the same stream: the command does not close the stream,   *)
(* does not call the error handler and hands over an empty output message  *)
(* of that stream; Update, on that message, leaves state and Output as     *)
(* they are and issues the next receive command.  On any other error of    *)
(* Current() the command closes the stream and calls the error handler.    *)
(***************************************************************************)
ReceiveStep ==
    /\ pend.t = "cmd" /\ pend.name \in {"receive", "startCompletion"}
    /\ pend'.t = "msg"

C26_Step ==
    /\ (ReceiveStep /\ log'.current = NoContent) =>
            /\ strm'.closed = strm.closed
            /\ log'.errors = log.errors
            /\ mods'.state = mods.state /\ mods'.Output = mods.Output
            /\ pend' = OutputMsg(<< >>, TRUE, pend'.mod)
    /\ (/\ pend.t = "msg" /\ pend.name = "completionOutput" /\ pend.stream
        /\ log.current = NoContent /\ pend' # pend /\ ~log'.keyQuit) =>
            /\ mods' = mods
            /\ pend' = ReceiveCmd(pend.mod)
            /\ strm' = strm
    /\ (ReceiveStep /\ log'.current \notin {NoErr, NoContent, NoCall}) =>
            /\ strm'.closed = strm.closed + 1
            /\ log'.errors = log.errors + 1

C26_NoContentKeepsPolling == [][C26_Step]_vars

\* Update has handled the message of a Current() that had no content.
C26_Witness ==
    /\ log.current = NoContent
    /\ pend.t = "cmd" /\ pend.name = "receive"
    /\ mods.state = "response"

\* An error of Current() has closed the stream.
C26_WitnessError ==
    /\ log.current \notin {NoErr, NoContent, NoCall}
    /\ log.errors > 0 /\ strm.closed > 0

(***************************************************************************)
(* C27: Close() is idempotent on the stream of every adapter: a Close on a *)
(* stream that was closed, with no other call in between, does not panic   *)
(* and leaves the stream as the Close before it did.                       *)
(***************************************************************************)
C27_Step ==
    (/\ strm.closed >= 1 /\ hpc \in {"closed", "stopped"}
     /\ (hpc' = "panic" \/ strm'.closed = strm.closed + 1))
        => (hpc' = "closed" /\ strm' = [strm EXCEPT !.closed = @ + 1])

C27_CloseIsIdempotent == [][C27_Step]_vars

(***************************************************************************)
(* C21: after q or Ctrl-C, pressed while the provider request is in flight *)
(* (no error was handled, the stream has not completed), the session state *)
(* is Done and, once quit has run, the context handed to the adapter's     *)
(* Request is cancelled.                                                   *)
(***************************************************************************)
C21_QuitCancelsRequest ==
    (/\ log.keyQuit /\ phase \in {"finished", "exited"}
     /\ ctxs.request # "none" /\ log.errors = 0 /\ ~log.completed)
        => (mods.state = "done" /\ CtxDone(ctxs, ctxs.request))

(***************************************************************************)
(* C23: session state (state, retries, messages, Output, the cancel        *)
(* functions, the configured API and model) changes only in a step of      *)
(* Update: the handling of a message a command returned, or of a key.      *)
(***************************************************************************)
SessionState(m, c, cx) ==
    <<m.state, m.retries, m.messages, m.Output, cx.cancelRequest, c.API, c.Model>>

C23_Step ==
    SessionState(mods', config', ctxs') # SessionState(mods, config, ctxs)
        => (pend.t = "msg" \/ (log'.keyQuit /\ ~log.keyQuit))

C23_OnlyUpdateMutates == [][C23_Step]_vars

\* The servers of the run that the settings enable: configured, not named
\* in the disable list, and the list does not hold "*".
EnabledServers == {n \in mcps.servers : Star \notin mcps.disable /\ n \notin mcps.disable}

FailingServers == {n \in EnabledServers : mcps.behaves[n] # "ok"}

\* C24: whatever the order in which the per-server tasks run, the
\* enumeration of tools returns, when every enabled server answers, a map
\* with exactly one entry per enabled server (none for a disabled one)
\* that holds the server's tool list; when an enabled server fails or times
\* out it returns an error that names such a server, and no map.
C24_EnumerationResult ==
    (mcps.op = "mcpTools" /\ mcps.ret.t # "none") =>
        IF FailingServers = {}
        THEN /\ mcps.ret.t = "map"
             /\ DOMAIN mcps.ret.map = EnabledServers
             /\ \A n \in EnabledServers : mcps.ret.map[n] = ToolsOf(n)
        ELSE /\ mcps.ret.t = "err"
             /\ mcps.ret.err.server \in FailingServers

C24_Witness ==
    /\ mcps.op = "mcpTools"
    /\ mcps.ret.t = "map"
    /\ mcps.disable = {SrvS}
    /\ DOMAIN mcps.ret.map = {SrvGh, SrvXY}

C24_WitnessError ==
    /\ mcps.op = "mcpTools"
    /\ mcps.ret.t = "err"
    /\ mcps.ret.err.t = "timeout"
    /\ \E n \in EnabledServers : mcps.result = (n :> ToolsOf(n))

StartsWith(str, prefix) ==
    Len(prefix) <= Len(str) /\ SubSeq(str, 1, Len(prefix)) = prefix

\* C25: the wire name "<s>_<t>" of a tool t of an enabled server s whose
\* name holds no underscore is dispatched to server s and tool t, also when
\* t holds underscores; a name without underscore, and a name whose part
\* before the first underscore is no configured server or a disabled one,
\* returns an error without a client having been started.
C25_Dispatch ==
    (mcps.op = "toolCall") =>
        LET c == mcps.call
        IN  /\ (/\ c.from # << >>
                 /\ ~HasUnderscore(c.from[1])
                 /\ c.from[1] \in EnabledServers)
                    => (c.started /\ c.server = c.from[1] /\ c.tool = c.from[2])
            /\ (\/ ~HasUnderscore(c.name)
                 \/ \A n \in EnabledServers :
                        ~StartsWith(c.name, n \o <<"_">>)
                 \/ \E k \in mcps.servers \ EnabledServers :
                        /\ ~HasUnderscore(k)
                        /\ StartsWith(c.name, k \o <<"_">>))
                    => (c.pc = "returned" /\ c.err # "nil" /\ ~c.started)

C25_Witness ==
    /\ mcps.op = "toolCall"
    /\ mcps.call.from = <<SrvGh, ToolBC>>
    /\ mcps.call.started
    /\ mcps.call.server = SrvGh
    /\ mcps.call.tool = ToolBC

\* C22: a tool call is bounded by its context: when the call has not
\* returned and the deadline of the context has passed, or its cancel
\* function has been called, the call is aborted and returns.
C22_CallIsBounded ==
    (mcps.op = "toolCall" /\ Blocked(mcps.call) /\ mcps.ctxDone)
        ~> (mcps.op = "toolCall" /\ mcps.call.pc = "returned")

(***************************************************************************)
(* C31: a Read(id) of the expiring cache at the time now delivers the data *)
(* of the latest Write(id, expiresAt, ...) when expiresAt >= now; when     *)
(* expiresAt < now it reports not-found and removes the entry, and no      *)
(* entry of the id is left.                                                *)
(***************************************************************************)
ExpiringReadStep == clock' = clock /\ dbOp'.op = "expiring.Read"

ReadsLastWrite(id) ==
    LET w == LastWrite(saved, id)
    IN  IF w.expiresAt >= Unix(clock)
        THEN dbOp'.kind = NoErr /\ dbOp'.data = w.data
        ELSE dbOp'.kind = ErrNotExist /\ \A f \in temp' : f.id # id

C31_Step ==
    (ExpiringReadStep /\ LastWrite(saved, dbOp'.id) # NoEntry)
        => ReadsLastWrite(dbOp'.id)

C31_PlainStep ==
    (ExpiringReadStep /\ ~saved'.odd /\ LastWrite(saved, dbOp'.id) # NoEntry)
        => ReadsLastWrite(dbOp'.id)

C31_WitnessData ==
    /\ dbOp.op = "expiring.Read" /\ dbOp.id = TokT
    /\ dbOp.kind = NoErr /\ dbOp.data = <<"w">>
    /\ Unix(clock) = 1
    /\ ~saved.odd

(***************************************************************************)
(* C32: after any sequence of Write, Read and Delete calls of the expiring *)
(* cache there is at most one stored entry per id, and a Read that follows *)
(* two Writes of the same id returns the data of the second Write.         *)
(***************************************************************************)
EntriesOf(t, id) == {f \in t : f.id = id}

ReadAfterTwoWrites ==
    /\ ExpiringReadStep
    /\ dbOp.op = "expiring.Write" /\ dbOp.over /\ dbOp.id = dbOp'.id

C32_Step ==
    /\ \A id \in TokenIds : Cardinality(EntriesOf(temp', id)) <= 1
    /\ ReadAfterTwoWrites =>
            LET w == LastWrite(saved, dbOp'.id)
            IN  IF w.expiresAt >= Unix(clock)
                THEN dbOp'.kind = NoErr /\ dbOp'.data = w.data
                ELSE dbOp'.kind # NoErr

C32_PlainStep ==
    ~saved'.odd =>
        /\ \A id \in TokenIds : Cardinality(EntriesOf(temp', id)) <= 1
        /\ ReadAfterTwoWrites =>
                LET w == LastWrite(saved, dbOp'.id)
                IN  IF w.expiresAt >= Unix(clock)
                    THEN dbOp'.kind = NoErr /\ dbOp'.data = w.data
                    ELSE dbOp'.kind # NoErr

KeySources(u) ==
    <<u.api.APIKey,
      IF u.api.APIKeyCmd # << >> THEN TrimSpace(u.run.out) ELSE << >>,
      IF u.api.APIKeyEnv # << >> THEN u.getenv[u.api.APIKeyEnv] ELSE << >>,
      u.getenv[DefaultEnvName]>>

FirstNonEmpty(seq) ==
    IF \A i \in 1..Len(seq) : seq[i] = << >> THEN << >>
    ELSE seq[CHOOSE i \in 1..Len(seq) :
                 seq[i] # << >> /\ \A j \in 1..(i - 1) : seq[j] = << >>]

C33_KeyCascade ==
    (unit.fn = "ensureKey" /\ unit.res # NoRes
        /\ ~(unit.api.APIKey = << >> /\ unit.api.APIKeyCmd # << >> /\ unit.run.failed))
        => IF FirstNonEmpty(KeySources(unit)) = << >>
           THEN unit.res.t = "err"
           ELSE unit.res.t = "key" /\ unit.res.key = FirstNonEmpty(KeySources(unit))

(***************************************************************************)
(* C34: the title stored when a conversation is persisted is the explicit  *)
(* title (--title), trimmed, unless that is blank or sha-shaped, and then  *)
(* the first line of the last user prompt of the thread; continuing a      *)
(* conversation without --title does not make the text given to --continue *)
(* its title.                                                              *)
(***************************************************************************)
ExplicitTitle == TrimSpace(config.Title)

C34_StoredTitle ==
    (phase = "exited" /\ log.save = "nil") =>
        \E r \in db :
            /\ r.id = config.cacheWriteToID
            /\ r.title = IF ExplicitTitle = << >> \/ sha1reg(ExplicitTitle)
                         THEN firstLine(lastPrompt(mods.messages))
                         ELSE ExplicitTitle

(***************************************************************************)
(* C36: Completions(in) returns exactly: for every row whose id starts     *)
(* with in, the line idform TAB title, idform being the short id when      *)
(* len(in) < 7 and the full id otherwise; and for every row whose title    *)
(* starts with in, the line title TAB short-id.                            *)
(***************************************************************************)
C36_Completions ==
    dbOp.op = "Completions" =>
        dbOp.res =
            {(IF Len(dbOp.in) < sha1short THEN SubSeq(r.id, 1, sha1short) ELSE r.id)
                 \o <<"\t">> \o r.title : r \in {q \in db : IsPrefix(dbOp.in, q.id)}}
            \cup {r.title \o <<"\t">> \o SubSeq(r.id, 1, sha1short) :
                      r \in {q \in db : IsPrefix(dbOp.in, q.title)}}

UserPrompts(M) == {i \in 1..Len(M) : M[i].role = RoleUser /\ M[i].content # << >>}

C35_LastPrompt ==
    (unit.fn = "lastPrompt" /\ unit.res # NoRes) =>
        LET at == UserPrompts(unit.messages)
        IN  unit.res.text =
                IF at = {} THEN << >>
                ELSE unit.messages[CHOOSE i \in at : \A j \in at : j <= i].content

C35_Witness ==
    /\ unit.fn = "lastPrompt" /\ unit.res # NoRes
    /\ unit.messages = <<Msg(RoleUser, <<"a">>, << >>), Msg(RoleUser, << >>, << >>),
                          Msg(RoleAssistant, <<"b">>, << >>)>>
    /\ unit.res.text = <<"a">>

(***************************************************************************)
(* C38: when the first request of an adapter to the provider fails, the    *)
(* first Next() on the stream it returned is false and Err() is that error *)
(* so the caller goes to Err() and never calls Current() on a stream that  *)
(* has no open transport; this holds for google as for the others.         *)
(***************************************************************************)
\* The stream came out of a Request whose call to the provider failed.
RequestFailed == hist.call = "none" /\ hpc = "next" /\ strm.err # NoErr

C38_Step ==
    (RequestFailed /\ HNext) =>
        /\ ~hist'.ret
        /\ StreamErr(strm') = strm.err
        /\ hpc' = "afterFalse"

C38_FailedRequestEndsAtNext == [][C38_Step]_vars

(***************************************************************************)
(* C39: on an ollama stream, however the steps of the caller and of the    *)
(* Chat worker interleave, the worker never stands at (or has panicked in) *)
(* a send on a response channel that Close has closed: Close may be called *)
(* while responses are still being delivered.                              *)
(***************************************************************************)
C39_NoSendOnClosedChannel ==
    ~(worker.pc \in {"send", "panic"} /\ ~strm.respCh)

(***************************************************************************)
(* C40: a retry appends nothing to the output: Update, handling the        *)
(* completionInput that Mods.retry returned, leaves Output as it was, so   *)
(* the preamble of --prompt-args / --prompt is in Output once at most.     *)
(***************************************************************************)
C40_Step ==
    (UpdateCompletionInput /\ mods.retries > 0) => mods'.Output = mods.Output

C40_RetryKeepsOutput == [][C40_Step]_vars

InitDB == StoreInit /\ StreamIdle /\ SessionIdle /\ AuxIdle

SpecDB == InitDB /\ [][DbNext]_vars

SpecComplete == InitDB /\ [][CompleteNext]_vars

SpecIndex == InitDB /\ [][IndexNext]_vars

SpecStore == InitDB /\ [][StoreNext]_vars

SpecCaches == InitDB /\ [][CachesNext]_vars

SpecTokens == InitDB /\ [][TokensNext]_vars

InitStreams == StoreInit /\ StreamInit /\ SessionIdle /\ AuxIdle

SpecStream == InitStreams /\ [][StreamNextStep]_vars

InitMcp == StoreInit /\ StreamIdle /\ SessionIdle /\ temp = {} /\ ctxs = NoCtxs /\ unit = NoUnit /\ worker = NoWorker /\ McpInit

SpecMcp == InitMcp /\ [][McpNext]_vars

\* A client call honours its context: once the call is blocked and its
\* context is done, it returns.
SpecMcpLive == InitMcp /\ [][McpNext]_vars /\ WF_vars(ToolCallAborted)

InitUnits ==
    /\ StoreInit /\ StreamIdle /\ SessionIdle
    /\ temp = {} /\ ctxs = NoCtxs /\ mcps = NoMcp /\ worker = NoWorker
    /\ unit \in KeyCalls \cup DecodeCalls \cup LastPromptCalls

UnitsNext == EnsureKey \/ DecodeOld \/ LastPrompt

SpecUnits == InitUnits /\ [][UnitsNext]_vars

InitOllama ==
    /\ StoreInit /\ OllamaInit /\ SessionIdle
    /\ temp = {} /\ ctxs = NoCtxs /\ mcps = NoMcp /\ unit = NoUnit

SpecOllama == InitOllama /\ [][OllamaStep]_vars

SpecClose == InitStreams /\ [][StreamCloseStep]_vars

Init == SessionInit /\ StoreOfEarlierRuns /\ StreamIdle /\ AuxIdle

Spec == Init /\ [][SessionNext]_vars

====
